---- MODULE Spec2Model ----
(***************************************************************************)
(* Record-and-replay HTTPS proxy (rust-http-playback-proxy).               *)
(*                                                                         *)
(* Recording side: RecordingHandler (src/src/recording/hudsucker_handler.rs)*)
(* with its per-peer FIFO of request infos, the shared inventory and the   *)
(* responses relayed to the client.                                        *)
(* Playback side: create_chunks and the conversion of resources            *)
(* (src/src/playback/transaction.rs), handle_playback_request and          *)
(* serve_transaction with its timed body stream (src/src/playback/proxy.rs).*)
(* Shutdown of the recorder: start_recording_proxy                         *)
(* (src/src/recording/proxy.rs).                                           *)
(* Content pipeline and inventory: BatchProcessor                          *)
(* (src/src/recording/batch_processor.rs), the inventory on disk, and      *)
(* generate_file_path_from_url (src/src/utils.rs).                         *)
(*                                                                         *)
(* Option<T> is modelled as a sequence: None is << >>, Some(x) is <<x>>.   *)
(* Fields whose name starts with g_ are history fields: they are not part  *)
(* of the program's data, they only remember which call produced a value.  *)
(***************************************************************************)
EXTENDS Integers, Sequences, FiniteSets, TLC

VARIABLES
    now,              \* monotonic clock (Instant::now()), in ticks
    request_counter,  \* RecordingHandler.request_counter
    request_infos,    \* RecordingHandler.request_infos: peer address -> FIFO
    inventory,        \* shared_inventory.resources
    tasks,            \* handle_response futures in flight
    relayed,          \* responses handle_response returned to the client
    pushed,           \* history: per peer, the infos handle_request pushed
    answered,         \* history: per peer, requests whose outcome has arrived
    respStarted,      \* history: per peer, handle_response invocations
    origin,           \* history: per peer, the origin responses handed over
    upstreamFailed,   \* history: <<peer, i>> whose forwarding failed
    pairing,          \* history: per inventory entry, who produced it
    chunk_in,         \* create_chunks: its arguments
    chunk_out,        \* create_chunks: its result
    play_resource,    \* playback: the inventory resource being loaded
    txn,              \* playback: the transaction built from it
    response,         \* playback: the response serve_transaction built
    clock,            \* playback: monotonic clock of the player, in ticks
    srv,              \* playback: the locals of one serve_transaction call
    emitted,          \* playback: the frames the body stream has yielded
    stream_end,       \* playback: when the body stream returned None
    loaded,           \* playback: the resources of the loaded inventory
    transactions,     \* playback: the shared Vec<Transaction>
    request,          \* playback: the request being handled
    answers,          \* history: the requests answered so far
    platform,         \* shutdown: the cfg the recorder was built for
    control_port,     \* shutdown: start_recording_proxy's control_port
    proc,             \* shutdown: the recorder process
    mgmt,             \* shutdown: the management API task
    sh_pc,            \* shutdown: position of the shutdown_handler task
    proxy_pc,         \* shutdown: position of start_recording_proxy itself
    index_json,       \* shutdown: index.json in the inventory directory
    attempt,          \* shutdown: the verification loop's attempt
    visible,          \* shutdown: content files that exist on disk
    delivered,        \* history: the shutdown triggers delivered
    shutdown_log,     \* history: content processing and shutdown steps, in order
    control_log,      \* shutdown: the management API's last request and answer
    b_inventory,      \* batch: the inventory process_all works on
    b_idx,            \* batch: position of process_all's loop
    b_files,          \* batch: the files of the contents directory
    b_result,         \* batch: what process_all returned
    b_errors,         \* history: resources whose process_resource failed
    fs_dirs,          \* inventory store: directories that exist
    fs_files,         \* inventory store: files and their contents
    saved,            \* history: per directory, the save_inventory calls
    save_result,      \* inventory store: what save_inventory returned
    load_result,      \* inventory store: what load_inventory returned
    playback_pc,      \* inventory store: position of run_playback_mode
    d_proc,           \* player shutdown: the player process
    d_main,           \* player shutdown: position of start_playback_proxy
    d_conns,          \* player shutdown: the connection tasks
    d_signals,        \* history: signals delivered to the player
    c_clock,          \* concurrent playback: monotonic clock, in ms
    c_conns,          \* concurrent playback: the connection tasks and their locals
    p_url,            \* content path: the arguments of generate_file_path_from_url
    p_path            \* content path: its result

recVars == <<now, request_counter, request_infos, inventory, tasks, relayed,
             pushed, answered, respStarted, origin, upstreamFailed, pairing>>
chunkVars == <<chunk_in, chunk_out>>
playVars == <<play_resource, txn, response>>
serveVars == <<clock, srv, emitted, stream_end>>
matchVars == <<loaded, transactions, request, answers>>
shutVars == <<platform, control_port, proc, mgmt, sh_pc, proxy_pc, index_json, attempt,
              visible, delivered, shutdown_log>>
batchVars == <<b_inventory, b_idx, b_files, b_result, b_errors>>
storeVars == <<fs_dirs, fs_files, saved, save_result, load_result, playback_pc>>
drainVars == <<d_proc, d_main, d_conns, d_signals>>
concVars == <<c_clock, c_conns>>
pathVars == <<p_url, p_path>>
moreVars == <<concVars, pathVars>>
extVars == <<control_log, batchVars, storeVars, drainVars, moreVars>>
restVars == <<serveVars, matchVars, shutVars, extVars>>
vars == <<recVars, chunkVars, playVars, restVars>>

None == << >>
Some(x) == <<x>>
IsSome(o) == o /= << >>
Unwrap(o) == o[1]

Max(a, b) == IF a >= b THEN a ELSE b
Min(a, b) == IF a <= b THEN a ELSE b

----------------------------------------------------------------------------
(* Bounds of the model.                                                    *)

MaxRequests == 2    \* handle_request calls in a run
MaxTime == 2        \* last clock tick
TicksPerMs == 2     \* clock resolution: ticks in one millisecond
MaxChunks == 2      \* body lengths go up to MaxChunks * CHUNK_SIZE + 1
MaxDurationMs == 1000   \* longest recorded transfer duration
MbpsScale == 1000   \* the mbps field is held in 1/MbpsScale Mbit/s

Conns == {"10.0.0.1:5001", "10.0.0.1:5002"}   \* client peer addresses

----------------------------------------------------------------------------
(* Requests and origin responses the engine hands to the handler.          *)

\* A header value that is not visible ASCII: HeaderValue::to_str() fails on it.
OpaqueBytes == {"<non-ascii bytes>"}

ToStr(v) == IF v \in OpaqueBytes THEN None ELSE Some(v)

Requests ==
    { [method |-> "POST",
       uri |-> [scheme |-> "", authority |-> "", path |-> "/b", query |-> Some("x=1")],
       host |-> Some("example.org")],
      [method |-> "CONNECT",
       uri |-> [scheme |-> "", authority |-> "example.com:443", path |-> "", query |-> None],
       host |-> Some("example.com:443")] }

OriginResponses ==
    { [status |-> 404,
       headers |-> << <<"set-cookie", "a=1">>, <<"connection", "keep-alive">>,
                      <<"x-raw", "<non-ascii bytes>">>, <<"set-cookie", "b=2">> >>,
       body |-> "<html>"] }

----------------------------------------------------------------------------
(* RecordingHandler::new                                                   *)

start_time == 0

\* Instant::duration_since saturates at zero; as_millis() truncates.
DurationSinceMs(later, earlier) ==
    (IF later >= earlier THEN later - earlier ELSE 0) \div TicksPerMs

\* http::Uri as a string (Display).
UriToString(uri) ==
    LET q == IF IsSome(uri.query) THEN "?" \o Unwrap(uri.query) ELSE ""
    IN IF uri.scheme /= ""
       THEN uri.scheme \o "://" \o uri.authority \o uri.path \o q
       ELSE uri.authority \o uri.path \o q

\* handle_request: the full URL of the request.
ReconstructUrl(req) ==
    IF req.uri.scheme /= ""
    THEN UriToString(req.uri)
    ELSE IF IsSome(req.host) /\ IsSome(ToStr(Unwrap(req.host)))
         THEN IF IsSome(req.uri.query)
              THEN "https://" \o Unwrap(req.host) \o req.uri.path \o "?" \o Unwrap(req.uri.query)
              ELSE "https://" \o Unwrap(req.host) \o req.uri.path
         ELSE UriToString(req.uri)

\* infos.entry(client_addr).or_insert_with(VecDeque::new).push_back(info)
PushBack(infos, client_addr, info) ==
    IF client_addr \in DOMAIN infos
    THEN [infos EXCEPT ![client_addr] = Append(@, info)]
    ELSE infos @@ (client_addr :> <<info>>)

\* History: calls of handle_response made with no request outstanding.
Unrequested(c) ==
    respStarted[c] - (answered[c] - Cardinality({f \in upstreamFailed : f[1] = c}))

RECURSIVE UnrequestedIn(_)
UnrequestedIn(S) ==
    IF S = {} THEN 0
    ELSE LET c == CHOOSE x \in S : TRUE IN Unrequested(c) + UnrequestedIn(S \ {c})

\* The requests and unrequested responses the engine has delivered so far.
EngineCalls == request_counter + UnrequestedIn(Conns)

\* handle_request(ctx, req) on the connection of peer c.
HandleRequest(c, req) ==
    /\ EngineCalls < MaxRequests
    /\ request_counter' = request_counter + 1
    /\ IF req.method = "CONNECT"
       THEN UNCHANGED <<request_infos, pushed>>
       ELSE LET info == [method |-> req.method,
                         url |-> ReconstructUrl(req),
                         request_start |-> now,
                         elapsed_since_start |-> DurationSinceMs(now, start_time),
                         g_conn |-> c,
                         g_idx |-> Len(pushed[c]) + 1]
            IN /\ request_infos' = PushBack(request_infos, c, info)
               /\ pushed' = [pushed EXCEPT ![c] = Append(@, info)]
    /\ UNCHANGED <<now, inventory, tasks, relayed, answered, respStarted, origin,
                   upstreamFailed, pairing>>
    /\ UNCHANGED <<chunkVars, playVars, restVars>>

----------------------------------------------------------------------------
(* RecordingHandler::handle_response                                       *)

\* The resource headers: repeated names are collected into Multiple; a value
\* that is not a string is skipped.
RECURSIVE CoalesceHeaders(_)
CoalesceHeaders(headers) ==
    IF headers = << >> THEN << >>
    ELSE LET n == Len(headers)
             acc == CoalesceHeaders(SubSeq(headers, 1, n - 1))
             name == headers[n][1]
             value == ToStr(headers[n][2])
         IN IF ~IsSome(value) THEN acc
            ELSE IF name \in DOMAIN acc
                 THEN [acc EXCEPT ![name] =
                          [kind |-> "Multiple", values |-> Append(@.values, Unwrap(value))]]
                 ELSE acc @@ (name :> [kind |-> "Single", values |-> <<Unwrap(value)>>])

\* Faulty variant of QueueKey: one queue shared by every peer.
QueueKeyAnyPeer(infos, client_addr) ==
    IF \E k \in DOMAIN infos : infos[k] /= << >>
    THEN CHOOSE k \in DOMAIN infos : infos[k] /= << >>
    ELSE client_addr

\* The key handle_response looks the queue up with.
QueueKey(infos, client_addr) == client_addr

\* infos.get_mut(&client_addr) and queue.pop_front(), under the map lock.
PopFront(infos, client_addr) ==
    LET k == QueueKey(infos, client_addr)
    IN IF k \in DOMAIN infos /\ infos[k] /= << >>
       THEN [info |-> Some(Head(infos[k])), infos |-> [infos EXCEPT ![k] = Tail(@)]]
       ELSE [info |-> None, infos |-> infos]

\* Faulty variant of MatchedOrDegraded: TTFB measured from the proxy start, the
\* download end from the request start.
MatchedOrDegradedMixedOrigin(request_info, ttfb_instant, download_end) ==
    IF IsSome(request_info)
    THEN [method |-> Unwrap(request_info).method,
          url |-> Unwrap(request_info).url,
          ttfb_ms |-> DurationSinceMs(ttfb_instant, start_time),
          download_end_ms |-> DurationSinceMs(download_end, Unwrap(request_info).request_start)]
    ELSE [method |-> "GET",
          url |-> "unknown",
          ttfb_ms |-> DurationSinceMs(ttfb_instant, start_time),
          download_end_ms |-> DurationSinceMs(download_end, start_time)]

\* Faulty variant of MatchedOrDegraded: the degraded record has no identity.
MatchedOrDegradedNoIdentity(request_info, ttfb_instant, download_end) ==
    IF IsSome(request_info)
    THEN [method |-> Unwrap(request_info).method,
          url |-> Unwrap(request_info).url,
          ttfb_ms |-> DurationSinceMs(ttfb_instant, Unwrap(request_info).request_start),
          download_end_ms |-> DurationSinceMs(download_end, Unwrap(request_info).request_start)]
    ELSE [method |-> "",
          url |-> "",
          ttfb_ms |-> DurationSinceMs(ttfb_instant, start_time),
          download_end_ms |-> DurationSinceMs(download_end, start_time)]

\* (method_str, url, ttfb_ms, download_end_ms) of the resource: from the
\* popped request info, or the fallback when there is none.
MatchedOrDegraded(request_info, ttfb_instant, download_end) ==
    IF IsSome(request_info)
    THEN [method |-> Unwrap(request_info).method,
          url |-> Unwrap(request_info).url,
          ttfb_ms |-> DurationSinceMs(ttfb_instant, Unwrap(request_info).request_start),
          download_end_ms |-> DurationSinceMs(download_end, Unwrap(request_info).request_start)]
    ELSE [method |-> "GET",
          url |-> "unknown",
          ttfb_ms |-> DurationSinceMs(ttfb_instant, start_time),
          download_end_ms |-> DurationSinceMs(download_end, start_time)]

\* Resource::new and the fields handle_response sets.
NewResource(m, status, headers) ==
    [method |-> m.method,
     url |-> m.url,
     ttfb_ms |-> m.ttfb_ms,
     download_end_ms |-> Some(m.download_end_ms),
     status_code |-> Some(status),
     error_message |-> None,
     raw_headers |-> Some(CoalesceHeaders(headers))]

NoResource == << >>

\* The engine hands the origin's response to handle_response: the status and
\* headers are taken, ttfb_instant is read, and the body starts buffering.
StartResponse(c, res, req_idx) ==
    /\ respStarted' = [respStarted EXCEPT ![c] = @ + 1]
    /\ origin' = [origin EXCEPT ![c] = Append(@, res)]
    /\ tasks' = tasks \cup
         { [conn |-> c, idx |-> respStarted[c] + 1, g_req |-> req_idx,
            status |-> res.status, headers |-> res.headers, body |-> res.body,
            ttfb_instant |-> now, pc |-> "collect",
            resource |-> NoResource, g_info |-> None] }
    /\ UNCHANGED <<now, request_counter, request_infos, inventory, relayed, pushed,
                   upstreamFailed, pairing>>
    /\ UNCHANGED <<chunkVars, playVars, restVars>>

\* The response to the next unanswered request of the connection arrives.
RespStart(c, res) ==
    /\ answered[c] < Len(pushed[c])
    /\ answered' = [answered EXCEPT ![c] = @ + 1]
    /\ StartResponse(c, res, answered[c] + 1)

\* handle_response is called on a connection with no request outstanding.
RespStartUnrequested(c, res) ==
    /\ answered[c] = Len(pushed[c])
    /\ EngineCalls < MaxRequests
    /\ UNCHANGED answered
    /\ StartResponse(c, res, 0)

\* body.collect() fails: the handler returns the parts with an empty body.
RespBodyError(t) ==
    /\ t.pc = "collect"
    /\ tasks' = tasks \ {t}
    /\ relayed' = relayed \cup
         { [conn |-> t.conn, idx |-> t.idx, status |-> t.status, body |-> "",
            outcome |-> "body_error", g_info |-> None] }
    /\ UNCHANGED <<now, request_counter, request_infos, inventory, pushed, answered,
                   respStarted, origin, upstreamFailed, pairing>>
    /\ UNCHANGED <<chunkVars, playVars, restVars>>

\* The body is buffered: pop the peer's queue, take download_end, build the
\* resource; process_response_body then suspends on file I/O.
RespPop(t) ==
    /\ t.pc = "collect"
    /\ LET popped == PopFront(request_infos, t.conn)
           m == MatchedOrDegraded(popped.info, t.ttfb_instant, now)
       IN /\ request_infos' = popped.infos
          /\ tasks' = (tasks \ {t}) \cup
               { [t EXCEPT !.pc = "process",
                           !.resource = NewResource(m, t.status, t.headers),
                           !.g_info = popped.info] }
    /\ UNCHANGED <<now, request_counter, inventory, relayed, pushed, answered,
                   respStarted, origin, upstreamFailed, pairing>>
    /\ UNCHANGED <<chunkVars, playVars, restVars>>

\* Faulty variant of PushResource: the response goes back without its
\* resource being recorded.
PushResourceSkipped(resources, resource) == resources

\* inventory.resources.push(resource), under the inventory lock.
PushResource(resources, resource) == Append(resources, resource)

\* inventory.resources.push(resource), then the buffered response is returned.
RespAppend(t) ==
    /\ t.pc = "process"
    /\ inventory' = PushResource(inventory, t.resource)
    /\ pairing' = Append(pairing, [conn |-> t.conn, idx |-> t.idx, g_req |-> t.g_req,
                                   ttfb_instant |-> t.ttfb_instant, info |-> t.g_info])
    /\ relayed' = relayed \cup
         { [conn |-> t.conn, idx |-> t.idx, status |-> t.status, body |-> t.body,
            outcome |-> "buffered", g_info |-> t.g_info] }
    /\ tasks' = tasks \ {t}
    /\ UNCHANGED <<now, request_counter, request_infos, pushed, answered, respStarted,
                   origin, upstreamFailed>>
    /\ UNCHANGED <<chunkVars, playVars, restVars>>

\* Forwarding the next unanswered request fails: the handler implements no
\* error hook, so nothing of RecordingHandler runs and the client gets the
\* engine's own error response.
UpstreamFail(c) ==
    /\ answered[c] < Len(pushed[c])
    /\ answered' = [answered EXCEPT ![c] = @ + 1]
    /\ upstreamFailed' = upstreamFailed \cup {<<c, answered[c] + 1>>}
    /\ UNCHANGED <<now, request_counter, request_infos, inventory, tasks, relayed,
                   pushed, respStarted, origin, pairing>>
    /\ UNCHANGED <<chunkVars, playVars, restVars>>

\* Time passes.
Tick ==
    /\ now < MaxTime
    /\ now' = now + 1
    /\ UNCHANGED <<request_counter, request_infos, inventory, tasks, relayed, pushed,
                   answered, respStarted, origin, upstreamFailed, pairing>>
    /\ UNCHANGED <<chunkVars, playVars, restVars>>

InitRec ==
    /\ now = 0
    /\ request_counter = 0
    /\ request_infos = << >>
    /\ inventory = << >>
    /\ tasks = {}
    /\ relayed = {}
    /\ pushed = [c \in Conns |-> << >>]
    /\ answered = [c \in Conns |-> 0]
    /\ respStarted = [c \in Conns |-> 0]
    /\ origin = [c \in Conns |-> << >>]
    /\ upstreamFailed = {}
    /\ pairing = << >>

InitChunksIdle ==
    /\ chunk_in = None
    /\ chunk_out = None

InitPlayIdle ==
    /\ play_resource = None
    /\ txn = None
    /\ response = None

InitServeIdle ==
    /\ clock = 0
    /\ srv = None
    /\ emitted = << >>
    /\ stream_end = None

InitMatchIdle ==
    /\ loaded = << >>
    /\ transactions = << >>
    /\ request = None
    /\ answers = << >>

InitShutIdle ==
    /\ platform = "unix"
    /\ control_port = None
    /\ proc = "running"
    /\ mgmt = "none"
    /\ sh_pc = "select"
    /\ proxy_pc = "serving"
    /\ index_json = None
    /\ attempt = 0
    /\ visible = {}
    /\ delivered = << >>
    /\ shutdown_log = << >>

InitBatchIdle ==
    /\ b_inventory = << >>
    /\ b_idx = 0
    /\ b_files = << >>
    /\ b_result = None
    /\ b_errors = {}

InitStoreIdle ==
    /\ fs_dirs = {}
    /\ fs_files = << >>
    /\ saved = << >>
    /\ save_result = None
    /\ load_result = None
    /\ playback_pc = "idle"

InitDrainIdle ==
    /\ d_proc = "running"
    /\ d_main = "accepting"
    /\ d_conns = << >>
    /\ d_signals = << >>

InitConcIdle ==
    /\ c_clock = 0
    /\ c_conns = << >>

InitPathIdle ==
    /\ p_url = None
    /\ p_path = None

InitMoreIdle == InitConcIdle /\ InitPathIdle

InitExtIdle ==
    control_log = None /\ InitBatchIdle /\ InitStoreIdle /\ InitDrainIdle /\ InitMoreIdle

InitRestIdle == InitServeIdle /\ InitMatchIdle /\ InitShutIdle /\ InitExtIdle

Init == InitRec /\ InitChunksIdle /\ InitPlayIdle /\ InitRestIdle

Next ==
    \/ \E c \in Conns, req \in Requests : HandleRequest(c, req)
    \/ \E c \in Conns, res \in OriginResponses : RespStart(c, res)
    \/ \E t \in tasks : RespBodyError(t)
    \/ \E t \in tasks : RespPop(t)
    \/ \E t \in tasks : RespAppend(t)
    \/ \E c \in Conns : UpstreamFail(c)
    \/ Tick

Spec == Init /\ [][Next]_vars

\* The handler driven by an engine that may also call handle_response on a
\* connection whose queue holds nothing.
NextUnmatched ==
    \/ Next
    \/ \E c \in Conns, res \in OriginResponses : RespStartUnrequested(c, res)

SpecUnmatched == Init /\ [][NextUnmatched]_vars
----------------------------------------------------------------------------
(* create_chunks (playback/transaction.rs).                                *)
(*                                                                         *)
(* The wire body is a buffer of total_size bytes; a chunk's bytes are the  *)
(* slice content[from..to] of it, held as the pair of offsets.             *)
(* The f64 products are modelled by exact integer arithmetic truncated     *)
(* toward zero: for the sizes and durations below, (chunk_size/total_size) *)
(* * T is either at least 2^-18 away from an integer or the ratio is 1/k   *)
(* with k <= 4, where the f64 product is exact after rounding.             *)

CHUNK_SIZE == 65536
TARGET_MBPS == 1

BodyLengths ==
    {n \in {k * CHUNK_SIZE + d : k \in 0..MaxChunks, d \in {-1, 0, 1}} : n >= 0}

\* The timing fields of a Resource that create_chunks reads.
ChunkResources ==
    [ttfb_ms : {0, 5},
     download_end_ms : {None, Some(0), Some(5), Some(6), Some(8), Some(5 + MaxDurationMs)},
     mbps : {None, Some(MbpsScale \div 2), Some(8 * MbpsScale)}]

\* Faulty variant of TransferDurationMs: no floor of 1 ms.
TransferDurationMsNoFloor(total_size, resource) ==
    IF IsSome(resource.download_end_ms)
    THEN Max(0, Unwrap(resource.download_end_ms) - resource.ttfb_ms)
    ELSE LET mbps == IF IsSome(resource.mbps) THEN Unwrap(resource.mbps)
                     ELSE TARGET_MBPS * MbpsScale
         IN (total_size * MbpsScale) \div (mbps * 125)

\* download_end_ms.saturating_sub(ttfb_ms), or the time the body takes at
\* mbps (1 Mbps when absent); at least 1 ms.
TransferDurationMs(total_size, resource) ==
    LET d == IF IsSome(resource.download_end_ms)
             THEN Max(0, Unwrap(resource.download_end_ms) - resource.ttfb_ms)
             ELSE LET mbps == IF IsSome(resource.mbps) THEN Unwrap(resource.mbps)
                              ELSE TARGET_MBPS * MbpsScale
                  IN (total_size * MbpsScale) \div (mbps * 125)
    IN Max(1, d)

\* std::cmp::min(CHUNK_SIZE, total_size - offset)
ChunkSizeAt(total_size, offset) == Min(CHUNK_SIZE, total_size - offset)

\* Faulty variant of SliceOf: the last byte of every slice is left out.
SliceOfShort(offset, chunk_size) == [from |-> offset, to |-> offset + chunk_size - 1]

\* content[offset..offset + chunk_size].to_vec()
SliceOf(offset, chunk_size) == [from |-> offset, to |-> offset + chunk_size]

\* Faulty variant of ChunkDurationMs: the share is rounded up.
ChunkDurationMsRoundedUp(chunk_size, total_size, transfer_duration_ms) ==
    (chunk_size * transfer_duration_ms + total_size - 1) \div total_size

\* ((chunk_size / total_size) * transfer_duration_ms) as u64
ChunkDurationMs(chunk_size, total_size, transfer_duration_ms) ==
    (chunk_size * transfer_duration_ms) \div total_size

\* The while loop of create_chunks.
RECURSIVE ChunkLoop(_, _, _, _, _)
ChunkLoop(chunks, offset, current_time, total_size, transfer_duration_ms) ==
    IF offset < total_size
    THEN LET chunk_size == ChunkSizeAt(total_size, offset)
         IN ChunkLoop(Append(chunks, [chunk |-> SliceOf(offset, chunk_size),
                                      target_time |-> current_time]),
                      offset + chunk_size,
                      current_time + ChunkDurationMs(chunk_size, total_size,
                                                     transfer_duration_ms),
                      total_size, transfer_duration_ms)
    ELSE chunks

\* create_chunks(content, resource) -> (chunks, target_close_time)
CreateChunksOf(total_size, resource) ==
    IF total_size = 0
    THEN [chunks |-> << >>, target_close_time |-> 0]
    ELSE LET T == TransferDurationMs(total_size, resource)
         IN [chunks |-> ChunkLoop(<< >>, 0, 0, total_size, T),
             target_close_time |-> T]

InitChunks ==
    /\ chunk_in \in {Some([total_size |-> n, resource |-> r]) :
                         n \in BodyLengths, r \in ChunkResources}
    /\ chunk_out = None

CreateChunks ==
    /\ IsSome(chunk_in)
    /\ chunk_out = None
    /\ chunk_out' = Some(CreateChunksOf(Unwrap(chunk_in).total_size, Unwrap(chunk_in).resource))
    /\ UNCHANGED <<chunk_in, recVars, playVars, restVars>>

NextChunks == CreateChunks

InitChunksOnly == InitRec /\ InitChunks /\ InitPlayIdle /\ InitRestIdle

SpecChunks == InitChunksOnly /\ [][NextChunks]_vars

----------------------------------------------------------------------------
(* Playback: convert_resource_to_transaction and serve_transaction.        *)

\* Header names as an inventory's index.json may spell them.
RecordedHeaderNames ==
    {"Connection", "TRANSFER-ENCODING", "Keep-Alive", "Proxy-Authenticate", "host",
     "Content-Length", "Set-Cookie", "content-type", "x bad name"}

\* str::to_lowercase on those names.
ToLower(key) ==
    CASE key = "Connection" -> "connection"
      [] key = "TRANSFER-ENCODING" -> "transfer-encoding"
      [] key = "Keep-Alive" -> "keep-alive"
      [] key = "Proxy-Authenticate" -> "proxy-authenticate"
      [] key = "Content-Length" -> "content-length"
      [] key = "Set-Cookie" -> "set-cookie"
      [] OTHER -> key

\* HeaderName::from_bytes: fails on a name that is no token, and otherwise
\* yields the name in lower case.
HeaderNameFromBytes(key) ==
    IF key = "x bad name" THEN None ELSE Some(ToLower(key))

\* HeaderValue::from_str: fails on control characters.
HeaderValueFromStr(val_str) ==
    IF val_str = "line\nbreak" THEN None ELSE Some(val_str)

RecordedValueOf(key) ==
    CASE key = "Set-Cookie" -> [kind |-> "Multiple", values |-> <<"a=1", "line\nbreak", "b=2">>]
      [] key = "Content-Length" -> [kind |-> "Single", values |-> <<"17">>]
      [] key = "content-type" -> [kind |-> "Single", values |-> <<"text/plain">>]
      [] OTHER -> [kind |-> "Single", values |-> <<"v">>]

RecordedHeaderMaps ==
    {[key \in names |-> RecordedValueOf(key)] :
        names \in {n \in SUBSET RecordedHeaderNames : Cardinality(n) <= 2}}

\* The resources of a loaded inventory, with the length of the final wire
\* body that the content pipeline yields for each.
PlayResources ==
    [method : {"GET"},
     url : {"https://example.com/a"},
     ttfb_ms : {1},
     download_end_ms : {Some(4)},
     mbps : {None},
     status_code : {None, Some(404)},
     error_message : {None, Some("Connection timeout")},
     raw_headers : {None} \cup {Some(h) : h \in RecordedHeaderMaps},
     content_type_mime : {None, Some("text/html")},
     original_charset : {None, Some("Shift_JIS")},
     content_type_charset : {None, Some("UTF-8")},
     final_len : {0, CHUNK_SIZE + 1}]

\* HashMap::insert
Insert(map, key, value) ==
    IF key \in DOMAIN map THEN [map EXCEPT ![key] = value] ELSE map @@ (key :> value)

Single(v) == [kind |-> "Single", values |-> <<v>>]

\* usize::to_string
RECURSIVE ToDecimalString(_)
ToDecimalString(n) ==
    LET digit == <<"0", "1", "2", "3", "4", "5", "6", "7", "8", "9">>[(n % 10) + 1]
    IN IF n < 10 THEN digit ELSE ToDecimalString(n \div 10) \o digit

\* convert_resource_to_transaction, from the final wire body on.
ConvertResourceToTransaction(resource) ==
    LET created == CreateChunksOf(resource.final_len, resource)
        h0 == IF IsSome(resource.raw_headers) THEN Unwrap(resource.raw_headers) ELSE << >>
        h1 == Insert(h0, "content-length", Single(ToDecimalString(resource.final_len)))
        charset_to_use == IF IsSome(resource.original_charset)
                          THEN resource.original_charset
                          ELSE resource.content_type_charset
        h2 == IF IsSome(resource.content_type_mime)
              THEN Insert(h1, "content-type",
                     Single(IF IsSome(charset_to_use)
                            THEN Unwrap(resource.content_type_mime) \o "; charset="
                                     \o Unwrap(charset_to_use)
                            ELSE Unwrap(resource.content_type_mime)))
              ELSE h1
    IN [method |-> resource.method,
        url |-> resource.url,
        ttfb |-> resource.ttfb_ms,
        status_code |-> resource.status_code,
        error_message |-> resource.error_message,
        raw_headers |-> Some(h2),
        chunks |-> created.chunks,
        target_close_time |-> created.target_close_time]

\* if let Some(original_charset) = &resource.original_charset { re_encode_to_charset }:
\* the charset of the wire body of a text resource, whose content file is UTF-8.
WireBodyCharset(resource) ==
    IF IsSome(resource.original_charset) THEN Unwrap(resource.original_charset) ELSE "UTF-8"

\* The names serve_transaction leaves to hyper.
PlayerSkipList ==
    {"transfer-encoding", "content-length", "connection", "keep-alive", "upgrade", "te",
     "trailer", "proxy-connection", "proxy-authorization", "proxy-authenticate", "host"}

\* Faulty variant of SkippedByPlayer: the name is compared as recorded.
SkippedByPlayerCaseSensitive(key) == key \in PlayerSkipList

\* key_lower == "transfer-encoding" || ... || key_lower == "host"
SkippedByPlayer(key) == ToLower(key) \in PlayerSkipList

\* The values of one header that the builder accepts, under its name.
RECURSIVE HeaderLines(_, _)
HeaderLines(header_name, values) ==
    IF values = << >> THEN << >>
    ELSE LET rest == HeaderLines(header_name, Tail(values))
         IN IF IsSome(HeaderValueFromStr(Head(values)))
            THEN <<(<<header_name, Head(values)>>)>> \o rest
            ELSE rest

\* for (key, value) in headers { ... }: the map is walked in some order.
RECURSIVE BuildHeaders(_, _)
BuildHeaders(headers, keys) ==
    IF keys = {} THEN << >>
    ELSE LET key == CHOOSE k \in keys : TRUE
             rest == BuildHeaders(headers, keys \ {key})
         IN IF SkippedByPlayer(key) THEN rest
            ELSE IF IsSome(HeaderNameFromBytes(key))
                 THEN HeaderLines(Unwrap(HeaderNameFromBytes(key)), headers[key].values) \o rest
                 ELSE rest

\* serve_transaction: the response it builds once the TTFB sleep is over.
ServeTransactionOf(transaction) ==
    IF IsSome(transaction.error_message)
    THEN [status |-> 500, headers |-> << >>,
          body |-> [kind |-> "full", text |-> Unwrap(transaction.error_message)]]
    ELSE [status |-> IF IsSome(transaction.status_code)
                     THEN Unwrap(transaction.status_code) ELSE 200,
          headers |-> IF IsSome(transaction.raw_headers)
                      THEN BuildHeaders(Unwrap(transaction.raw_headers),
                                        DOMAIN Unwrap(transaction.raw_headers))
                      ELSE << >>,
          body |-> [kind |-> "stream", chunks |-> transaction.chunks]]

InitPlay ==
    /\ play_resource \in {Some(r) : r \in PlayResources}
    /\ txn = None
    /\ response = None

\* Startup: the resource becomes a transaction.
Convert ==
    /\ IsSome(play_resource)
    /\ txn = None
    /\ txn' = Some(ConvertResourceToTransaction(Unwrap(play_resource)))
    /\ UNCHANGED <<play_resource, response, recVars, chunkVars, restVars>>

\* A request matched the transaction: serve_transaction builds the response.
ServeTransaction ==
    /\ IsSome(txn)
    /\ response = None
    /\ response' = Some(ServeTransactionOf(Unwrap(txn)))
    /\ UNCHANGED <<play_resource, txn, recVars, chunkVars, restVars>>

NextPlay == Convert \/ ServeTransaction

InitPlayOnly == InitRec /\ InitChunksIdle /\ InitPlay /\ InitRestIdle

SpecPlay == InitPlayOnly /\ [][NextPlay]_vars

----------------------------------------------------------------------------
(* serve_transaction in time (playback/proxy.rs): the TTFB sleep, the body  *)
(* stream's closure (stream::unfold) and its sleeps.  tokio::time::sleep    *)
(* completes at its deadline or later, never before.                        *)

MaxClockMs == 5     \* the player's clock runs for MaxClockMs milliseconds

\* Resources whose transactions the timed player serves.
TimedResources ==
    [method : {"GET"},
     url : {"https://example.com/a"},
     ttfb_ms : {0, 1},
     download_end_ms : {Some(1), Some(4)},
     mbps : {None},
     status_code : {Some(200)},
     error_message : {None, Some("Connection timeout")},
     raw_headers : {None},
     content_type_mime : {None},
     original_charset : {None},
     content_type_charset : {None},
     final_len : {0, 1, CHUNK_SIZE + 1, 2 * CHUNK_SIZE + 1}]

\* Faulty variant of TtfbDeadline: the headers are not held back.
TtfbDeadlineNoSleep(called_at, ttfb_ms) == called_at

\* tokio::time::sleep(Duration::from_millis(ttfb_ms)): its deadline.
TtfbDeadline(called_at, ttfb_ms) == called_at + ttfb_ms * TicksPerMs

\* Faulty variant of ChunkWait: a chunk is never held back.
ChunkWaitNever(target_time, elapsed) == None

\* if chunk.target_time > elapsed { wait_time = chunk.target_time - elapsed }
ChunkWait(target_time, elapsed) ==
    IF target_time > elapsed THEN Some(target_time - elapsed) ELSE None

\* Faulty variant of CloseWait: the stream ends right after the last chunk.
CloseWaitNever(close_time, elapsed) == None

\* if close_time > elapsed { wait_time = close_time - elapsed }
CloseWait(close_time, elapsed) ==
    IF close_time > elapsed THEN Some(close_time - elapsed) ELSE None

\* Faulty variant of IsLast: the chunk before the last one passes for the last.
IsLastOneEarly(chunks, iter) == iter + 1 > Len(chunks)

\* iter.peek().is_none(), iter being the index of the next chunk.
IsLast(chunks, iter) == iter > Len(chunks)

\* serve_transaction is entered for the matched transaction: the TTFB sleep
\* starts.
ServeStart ==
    /\ IsSome(txn)
    /\ srv = None
    /\ srv' = Some([pc |-> "ttfb_sleep",
                    wake |-> TtfbDeadline(clock, Unwrap(txn).ttfb),
                    ttfb_end_instant |-> 0,
                    iter |-> 1, chunk_idx |-> 0, sent_all |-> FALSE,
                    g_called_at |-> clock, g_woke_at |-> 0, g_reached_at |-> 0])
    /\ UNCHANGED <<clock, emitted, stream_end>>
    /\ UNCHANGED <<recVars, chunkVars, extVars, playVars, matchVars, shutVars>>

\* The TTFB sleep is over: ttfb_end_instant is read and the response is built,
\* either the 500 of an error transaction or the head with the body stream.
TtfbWake ==
    /\ IsSome(srv)
    /\ Unwrap(srv).pc = "ttfb_sleep"
    /\ clock >= Unwrap(srv).wake
    /\ response' = Some(ServeTransactionOf(Unwrap(txn)))
    /\ srv' = Some([Unwrap(srv) EXCEPT
                      !.pc = IF IsSome(Unwrap(txn).error_message) THEN "done" ELSE "poll",
                      !.ttfb_end_instant = clock,
                      !.g_woke_at = clock])
    /\ UNCHANGED <<clock, emitted, stream_end>>
    /\ UNCHANGED <<play_resource, txn>>
    /\ UNCHANGED <<recVars, chunkVars, extVars, matchVars, shutVars>>

\* Frame::data(chunk.chunk) is yielded; is_last becomes the next sent_all.
YieldChunk(s, i, slept) ==
    /\ emitted' = Append(emitted, [chunk |-> Unwrap(txn).chunks[i].chunk,
                                   g_idx |-> i, g_at |-> clock,
                                   g_reached_at |-> IF slept THEN s.g_reached_at ELSE clock,
                                   g_slept |-> slept])
    /\ srv' = Some([s EXCEPT !.pc = "poll",
                             !.iter = i + 1,
                             !.chunk_idx = s.chunk_idx + 1,
                             !.sent_all = IsLast(Unwrap(txn).chunks, i + 1)])
    /\ UNCHANGED stream_end

\* The stream is polled: one call of the unfold closure, up to its first
\* sleep or to its return.
StreamPoll ==
    /\ IsSome(srv)
    /\ Unwrap(srv).pc = "poll"
    /\ LET s == Unwrap(srv)
           chunks == Unwrap(txn).chunks
           elapsed == DurationSinceMs(clock, s.ttfb_end_instant)
       IN IF s.sent_all
          THEN LET wait == CloseWait(Unwrap(txn).target_close_time, elapsed)
               IN IF IsSome(wait)
                  THEN /\ srv' = Some([s EXCEPT !.pc = "close_sleep",
                                         !.wake = clock + Unwrap(wait) * TicksPerMs])
                       /\ UNCHANGED <<emitted, stream_end>>
                  ELSE /\ srv' = Some([s EXCEPT !.pc = "done"])
                       /\ stream_end' = Some(clock)
                       /\ UNCHANGED emitted
          ELSE IF s.iter <= Len(chunks)
               THEN LET wait == ChunkWait(chunks[s.iter].target_time, elapsed)
                    IN IF IsSome(wait)
                       THEN /\ srv' = Some([s EXCEPT !.pc = "chunk_sleep",
                                              !.wake = clock + Unwrap(wait) * TicksPerMs,
                                              !.g_reached_at = clock])
                            /\ UNCHANGED <<emitted, stream_end>>
                       ELSE YieldChunk(s, s.iter, FALSE)
               ELSE /\ srv' = Some([s EXCEPT !.pc = "done"])
                    /\ stream_end' = Some(clock)
                    /\ UNCHANGED emitted
    /\ UNCHANGED clock
    /\ UNCHANGED <<recVars, chunkVars, extVars, playVars, matchVars, shutVars>>

\* The sleep before a chunk is over: the chunk is yielded.
ChunkWake ==
    /\ IsSome(srv)
    /\ Unwrap(srv).pc = "chunk_sleep"
    /\ clock >= Unwrap(srv).wake
    /\ YieldChunk(Unwrap(srv), Unwrap(srv).iter, TRUE)
    /\ UNCHANGED clock
    /\ UNCHANGED <<recVars, chunkVars, extVars, playVars, matchVars, shutVars>>

\* The sleep up to target_close_time is over: the stream returns None.
CloseWake ==
    /\ IsSome(srv)
    /\ Unwrap(srv).pc = "close_sleep"
    /\ clock >= Unwrap(srv).wake
    /\ srv' = Some([Unwrap(srv) EXCEPT !.pc = "done"])
    /\ stream_end' = Some(clock)
    /\ UNCHANGED <<clock, emitted>>
    /\ UNCHANGED <<recVars, chunkVars, extVars, playVars, matchVars, shutVars>>

\* Time passes for the player.
ClockTick ==
    /\ clock < MaxClockMs * TicksPerMs
    /\ clock' = clock + 1
    /\ UNCHANGED <<srv, emitted, stream_end>>
    /\ UNCHANGED <<recVars, chunkVars, extVars, playVars, matchVars, shutVars>>

InitServe ==
    /\ play_resource \in {Some(r) : r \in TimedResources}
    /\ txn = Some(ConvertResourceToTransaction(Unwrap(play_resource)))
    /\ response = None
    /\ InitServeIdle

NextServe == ServeStart \/ TtfbWake \/ StreamPoll \/ ChunkWake \/ CloseWake \/ ClockTick

InitServeOnly ==
    InitRec /\ InitChunksIdle /\ InitServe /\ InitMatchIdle /\ InitShutIdle
        /\ InitExtIdle

SpecServe == InitServeOnly /\ [][NextServe]_vars

----------------------------------------------------------------------------
(* handle_playback_request (playback/proxy.rs) and the conversion of the    *)
(* loaded inventory (convert_resources_to_transactions).                    *)

MaxInventory == 2   \* resources in a loaded inventory
MaxServed == 2      \* requests answered in a run

\* Content files that exist under the inventory directory.
ExistingFiles == {"contents/get/https/example.com/a"}

BaseResource ==
    [method |-> "GET", url |-> "https://example.com/a", ttfb_ms |-> 0,
     download_end_ms |-> Some(1), mbps |-> None, status_code |-> Some(200),
     error_message |-> None, raw_headers |-> None, content_type_mime |-> None,
     original_charset |-> None, content_type_charset |-> None, final_len |-> 1,
     content_file_path |-> Some("contents/get/https/example.com/a"),
     content_base64 |-> None, content_utf8 |-> None]

\* Resources of an index.json: two origins, a path-only URL, an unparsable
\* URL, a query, and error resources with and without a captured body.
MatchResources ==
    { BaseResource,
      [BaseResource EXCEPT !.url = "https://other.test/a", !.status_code = Some(404),
                           !.content_file_path = None, !.content_utf8 = Some(""),
                           !.final_len = 0],
      [BaseResource EXCEPT !.method = "POST", !.status_code = Some(504),
                           !.error_message = Some("Connection timeout"),
                           !.content_file_path = None,
                           !.content_utf8 = Some("Gateway Timeout"), !.final_len = 15],
      [BaseResource EXCEPT !.url = "https://example.com/e", !.status_code = Some(502),
                           !.error_message = Some("Connection refused"),
                           !.content_file_path = None, !.final_len = 0],
      [BaseResource EXCEPT !.url = "/a", !.status_code = Some(203),
                           !.content_file_path = None, !.content_base64 = Some("QQ==")],
      [BaseResource EXCEPT !.url = "https://exa mple/a", !.status_code = Some(204),
                           !.content_file_path = Some("contents/get/https/missing"),
                           !.content_utf8 = Some("x")],
      [BaseResource EXCEPT !.url = "https://example.com/a?x=1", !.status_code = None] }

RECURSIVE SeqsUpTo(_, _)
SeqsUpTo(S, n) ==
    IF n = 0 THEN {<< >>}
    ELSE LET shorter == SeqsUpTo(S, n - 1)
         IN shorter \cup {Append(q, x) : q \in shorter, x \in S}

PlaybackRequests ==
    { [method |-> "GET",
       uri |-> [scheme |-> "", authority |-> "", path |-> "/a", query |-> None],
       host |-> Some("example.com")],
      [method |-> "GET",
       uri |-> [scheme |-> "http", authority |-> "example.com", path |-> "/a",
                query |-> Some("x=1")],
       host |-> Some("example.com")],
      [method |-> "POST",
       uri |-> [scheme |-> "", authority |-> "", path |-> "/a", query |-> None],
       host |-> Some("example.com")],
      [method |-> "GET",
       uri |-> [scheme |-> "", authority |-> "", path |-> "/a", query |-> None],
       host |-> None],
      [method |-> "GET",
       uri |-> [scheme |-> "", authority |-> "", path |-> "/e", query |-> None],
       host |-> Some("example.com")],
      [method |-> "GET",
       uri |-> [scheme |-> "", authority |-> "", path |-> "/a", query |-> None],
       host |-> Some("third.test")] }

\* The content a resource is served from: the file when it exists, else the
\* inline base64 or UTF-8 content; None makes the conversion skip the resource.
LoadContent(resource) ==
    IF IsSome(resource.content_file_path)
          /\ Unwrap(resource.content_file_path) \in ExistingFiles
    THEN Some("file")
    ELSE IF IsSome(resource.content_base64) THEN Some("base64")
    ELSE IF IsSome(resource.content_utf8) THEN Some("utf8")
    ELSE None

\* convert_resources_to_transactions: the resources that yield a transaction,
\* in inventory order.
RECURSIVE ConvertResourcesToTransactions(_)
ConvertResourcesToTransactions(resources) ==
    IF resources = << >> THEN << >>
    ELSE LET n == Len(resources)
             front == ConvertResourcesToTransactions(SubSeq(resources, 1, n - 1))
         IN IF IsSome(LoadContent(resources[n]))
            THEN Append(front, ConvertResourceToTransaction(resources[n]))
            ELSE front

\* t.url.parse::<hyper::Uri>(): authority, path and query, or an error.  An
\* origin-form string has no authority; a bare word is an authority with an
\* empty path; a space is no URI character.
ParseUri(url) ==
    CASE url = "https://example.com/a" ->
             Some([authority |-> Some("example.com"), path |-> "/a", query |-> None])
      [] url = "https://example.com/a?x=1" ->
             Some([authority |-> Some("example.com"), path |-> "/a", query |-> Some("x=1")])
      [] url = "https://example.com/e" ->
             Some([authority |-> Some("example.com"), path |-> "/e", query |-> None])
      [] url = "https://other.test/a" ->
             Some([authority |-> Some("other.test"), path |-> "/a", query |-> None])
      [] url = "/a" -> Some([authority |-> None, path |-> "/a", query |-> None])
      [] url = "unknown" -> Some([authority |-> Some("unknown"), path |-> "", query |-> None])
      [] OTHER -> None

\* headers.get("host").and_then(to_str).or_else(|| uri.authority())
RequestHost(req) ==
    IF IsSome(req.host) /\ IsSome(ToStr(Unwrap(req.host)))
    THEN req.host
    ELSE IF req.uri.authority /= "" THEN Some(req.uri.authority) ELSE None

\* Faulty variant of HostMatches: the authority is not looked at.
HostMatchesAnyHost(request_host, t_host) == TRUE

\* match (request_host, t_host) { (Some(a), Some(b)) => a == b, _ => true }
HostMatches(request_host, t_host) ==
    IF IsSome(request_host) /\ IsSome(t_host) THEN request_host = t_host ELSE TRUE

\* The closure given to find().
TransactionMatches(t, req) ==
    /\ t.method = req.method
    /\ LET transaction_uri == ParseUri(t.url)
       IN /\ IsSome(transaction_uri)
          /\ HostMatches(RequestHost(req), Unwrap(transaction_uri).authority)
          /\ Unwrap(transaction_uri).path = req.uri.path
          /\ Unwrap(transaction_uri).query = req.uri.query

\* Faulty variant of FindTransaction: the first transaction answers when none
\* matches.
FindTransactionOrFirst(txns, req) ==
    LET hits == {i \in 1..Len(txns) : TransactionMatches(txns[i], req)}
    IN IF hits = {} THEN Min(1, Len(txns)) ELSE CHOOSE i \in hits : \A j \in hits : i <= j

\* transactions_snapshot.iter().find(...): the index of the first match, 0
\* when find returns None.
FindTransaction(txns, req) ==
    LET hits == {i \in 1..Len(txns) : TransactionMatches(txns[i], req)}
    IN IF hits = {} THEN 0 ELSE CHOOSE i \in hits : \A j \in hits : i <= j

\* The response of the None arm.
NotFoundResponse(req) ==
    [status |-> 404, headers |-> << >>,
     body |-> [kind |-> "full",
               text |-> "Resource not found in playback data: " \o req.method \o " "
                            \o ReconstructUrl(req)]]

\* handle_playback_request up to the call of serve_transaction, or to the 404.
HandlePlaybackRequest(req) ==
    /\ request = None
    /\ Len(answers) < MaxServed
    /\ LET found == FindTransaction(transactions, req)
       IN /\ request' = Some([req |-> req, g_txn_idx |-> found])
          /\ IF found = 0
             THEN txn' = None /\ response' = Some(NotFoundResponse(req))
             ELSE txn' = Some(transactions[found]) /\ response' = None
    /\ UNCHANGED <<loaded, transactions, answers, play_resource>>
    /\ UNCHANGED <<recVars, chunkVars, extVars, serveVars, shutVars>>

\* The response goes out on the connection; the connection serves on.
ResponseSent ==
    /\ IsSome(request)
    /\ IsSome(response)
    /\ answers' = Append(answers, [req |-> Unwrap(request).req,
                                   g_txn_idx |-> Unwrap(request).g_txn_idx,
                                   response |-> Unwrap(response)])
    /\ request' = None
    /\ txn' = None
    /\ response' = None
    /\ UNCHANGED <<loaded, transactions, play_resource>>
    /\ UNCHANGED <<recVars, chunkVars, extVars, serveVars, shutVars>>

InitMatch ==
    /\ loaded \in SeqsUpTo(MatchResources, MaxInventory)
    /\ transactions = ConvertResourcesToTransactions(loaded)
    /\ request = None
    /\ answers = << >>

NextMatch ==
    \/ \E req \in PlaybackRequests : HandlePlaybackRequest(req)
    \/ ServeTransaction
    \/ ResponseSent

InitMatchOnly ==
    InitRec /\ InitChunksIdle /\ InitPlayIdle /\ InitServeIdle /\ InitMatch /\ InitShutIdle
        /\ InitExtIdle

SpecMatch == InitMatchOnly /\ [][NextMatch]_vars

----------------------------------------------------------------------------
(* start_recording_proxy (recording/proxy.rs): the management API task, the *)
(* shutdown_handler task and the proxy's own select.  handle_response has   *)
(* already run process_response_body on a resource when it pushes it, so a  *)
(* resource's content file is on disk when the resource is in the inventory.*)

MaxTriggers == 2    \* signals and control requests delivered in a run
MaxRecorded == 2    \* resources recorded in a run
VerifyAttempts == 10

Platforms == {"unix", "windows"}

\* The signals that ask a process of the platform to stop.
Signals(p) == IF p = "unix" THEN {"SIGINT", "SIGTERM"} ELSE {"CTRL_C", "CTRL_BREAK"}

\* wait_for_shutdown_signal: tokio::signal::ctrl_c() on unix, ctrl_c and
\* ctrl_break on windows.
Listened(p) == IF p = "unix" THEN {"SIGINT"} ELSE {"CTRL_C", "CTRL_BREAK"}

ControlRequests ==
    { [method |-> "POST", path |-> "/_shutdown"],
      [method |-> "GET", path |-> "/_shutdown"],
      [method |-> "POST", path |-> "/status"],
      [method |-> "POST", path |-> "/_shutdown/"] }

\* Resources as handle_response pushes them, with the field the verification
\* loop reads.
RecordedResources ==
    { [method |-> "GET", url |-> "https://example.org/b?x=1",
       content_file_path |-> Some("contents/get/https/example.org/b~x%3D1")],
      [method |-> "GET", url |-> "unknown", content_file_path |-> None] }

ContentPaths ==
    { Unwrap(r.content_file_path) : r \in {x \in RecordedResources : IsSome(x.content_file_path)} }

\* shutdown_tx.send(()): every subscribed receiver gets the message.
Broadcast ==
    /\ sh_pc' = IF sh_pc = "select" THEN "send" ELSE sh_pc
    /\ proxy_pc' = IF proxy_pc = "serving" THEN "notified" ELSE proxy_pc

\* The management task binds its listener; on failure it logs and returns.
MgmtBind ==
    /\ proc = "running"
    /\ mgmt = "binding"
    /\ mgmt' \in {"listening", "failed"}
    /\ UNCHANGED <<platform, control_port, proc, sh_pc, proxy_pc, index_json, attempt,
                   visible, delivered, shutdown_log>>
    /\ UNCHANGED <<recVars, chunkVars, extVars, playVars, serveVars, matchVars>>

\* Who holds the MutexGuard of shared_inventory between two steps.  The
\* shutdown handler takes it before save_inventory and the guard lives to the
\* end of the task's block, through the verification loop and its sleeps.
InventoryGuard == IF sh_pc = "verify" THEN Some("shutdown_handler") ELSE None

\* The guards a handle_response future holds where it is suspended
\* (body.collect() or process_response_body): each lock is taken and dropped
\* inside a block that holds no await of its own.
HandlerGuards(t) == {}

\* handle_response finishes for some response while the inventory is not
\* locked by the shutdown handler: process_response_body has written the
\* content file, the resource is pushed.
RecorderAppend(r) ==
    /\ proc = "running"
    /\ ~IsSome(InventoryGuard)
    /\ Len(inventory) < MaxRecorded
    /\ inventory' = Append(inventory, r)
    /\ visible' = IF IsSome(r.content_file_path)
                  THEN visible \cup {Unwrap(r.content_file_path)} ELSE visible
    /\ UNCHANGED <<now, request_counter, request_infos, tasks, relayed, pushed, answered,
                   respStarted, origin, upstreamFailed, pairing>>
    /\ shutdown_log' = Append(shutdown_log, "content_processed")
    /\ UNCHANGED <<platform, control_port, proc, mgmt, sh_pc, proxy_pc, index_json,
                   attempt, delivered>>
    /\ UNCHANGED <<chunkVars, extVars, playVars, serveVars, matchVars>>

\* The process gets a signal: a listened one completes the select of the
\* shutdown handler (and is swallowed afterwards); any other one has its
\* default disposition, which ends the process.
Signal(sig) ==
    /\ proc = "running"
    /\ Len(delivered) < MaxTriggers
    /\ delivered' = Append(delivered, sig)
    /\ IF sig \in Listened(platform)
       THEN /\ sh_pc' = IF sh_pc = "select" THEN "send" ELSE sh_pc
            /\ UNCHANGED proc
       ELSE /\ proc' = "killed"
            /\ UNCHANGED sh_pc
    /\ UNCHANGED <<platform, control_port, mgmt, proxy_pc, index_json, attempt, visible,
                   shutdown_log>>
    /\ UNCHANGED <<recVars, chunkVars, extVars, playVars, serveVars, matchVars>>

\* The condition of handle_request, with the method left out.
IsShutdownRequestAnyMethod(req) == req.path = "/_shutdown"

\* The condition of handle_request: the path and the method.
IsShutdownRequest(req) == req.path = "/_shutdown" /\ req.method = "POST"

\* The management API's handle_request.
ControlRequest(req) ==
    /\ proc = "running"
    /\ mgmt = "listening"
    /\ Len(delivered) < MaxTriggers
    /\ IF IsShutdownRequest(req)
       THEN /\ Broadcast
            /\ delivered' = Append(delivered, "POST /_shutdown")
            /\ control_log' = Some([req |-> req, status |-> 200,
                                     body |-> "Shutting down...\n"])
       ELSE /\ UNCHANGED <<sh_pc, proxy_pc, delivered>>
            /\ control_log' = Some([req |-> req, status |-> 404, body |-> "Not found\n"])
    /\ UNCHANGED <<platform, control_port, proc, mgmt, index_json, attempt, visible,
                   shutdown_log>>
    /\ UNCHANGED <<recVars, chunkVars, playVars, serveVars, matchVars>>
    /\ UNCHANGED <<batchVars, storeVars, drainVars, moreVars>>

\* shutdown_handler after its select: shutdown_tx_clone.send(()).
ShSend ==
    /\ proc = "running"
    /\ sh_pc = "send"
    /\ sh_pc' = "sleep"
    /\ proxy_pc' = IF proxy_pc = "serving" THEN "notified" ELSE proxy_pc
    /\ shutdown_log' = Append(shutdown_log, "broadcast")
    /\ UNCHANGED <<platform, control_port, proc, mgmt, index_json, attempt, visible,
                   delivered>>
    /\ UNCHANGED <<recVars, chunkVars, extVars, playVars, serveVars, matchVars>>

\* The proxy's select takes the shutdown arm: proxy.start() is dropped, no
\* connection is accepted any more; it then awaits the shutdown handler.
ProxyStop ==
    /\ proc = "running"
    /\ proxy_pc = "notified"
    /\ proxy_pc' = "joining"
    /\ shutdown_log' = Append(shutdown_log, "stop_accepting")
    /\ UNCHANGED <<platform, control_port, proc, mgmt, sh_pc, index_json, attempt,
                   visible, delivered>>
    /\ UNCHANGED <<recVars, chunkVars, extVars, playVars, serveVars, matchVars>>

\* The one-second sleep for in-flight requests is over.
ShSleepDone ==
    /\ proc = "running"
    /\ sh_pc = "sleep"
    /\ sh_pc' = "save"
    /\ shutdown_log' = Append(shutdown_log, "quiescence")
    /\ UNCHANGED <<platform, control_port, proc, mgmt, proxy_pc, index_json, attempt,
                   visible, delivered>>
    /\ UNCHANGED <<recVars, chunkVars, extVars, playVars, serveVars, matchVars>>

\* Faulty variant of LockedInventory: the inventory start_recording_proxy was
\* called with, which the handler took over at its construction.
LockedInventoryAsPassed(resources) == << >>

\* handler_inventory_clone.lock().await: the resources of the handler's shared
\* inventory as they are when the lock is granted.
LockedInventory(resources) == resources

\* The inventory is locked and save_inventory writes index.json; a failure is
\* logged and the handler goes on.
ShSave ==
    /\ proc = "running"
    /\ sh_pc = "save"
    /\ \E ok \in BOOLEAN :
           /\ index_json' = IF ok THEN Some(LockedInventory(inventory)) ELSE index_json
           /\ shutdown_log' = shutdown_log \o
                  (IF ok THEN <<"save_inventory", "index_json">> ELSE <<"save_inventory">>)
    /\ sh_pc' = "verify"
    /\ attempt' = 1
    /\ UNCHANGED <<platform, control_port, proc, mgmt, proxy_pc, visible, delivered>>
    /\ UNCHANGED <<recVars, chunkVars, extVars, playVars, serveVars, matchVars>>

\* Something outside the recorder removes a content file or puts it back:
\* tokio::fs::try_exists answers from the file system as it is at the call.
\* Only the verification loop looks, so only changes during it are modelled.
FsChange(path) ==
    /\ proc = "running"
    /\ sh_pc = "verify"
    /\ \E i \in 1..Len(inventory) : inventory[i].content_file_path = Some(path)
    /\ visible' = IF path \in visible THEN visible \ {path} ELSE visible \cup {path}
    /\ UNCHANGED <<platform, control_port, proc, mgmt, sh_pc, proxy_pc, index_json, attempt,
                   delivered, shutdown_log>>
    /\ UNCHANGED <<recVars, chunkVars, extVars, playVars, serveVars, matchVars>>

\* The inner loop with the first resource only.
MissingCountFirstOnly(resources, on_disk) ==
    IF /\ resources /= << >>
       /\ IsSome(resources[1].content_file_path)
       /\ Unwrap(resources[1].content_file_path) \notin on_disk
    THEN 1 ELSE 0

\* The inner loop of the verification: the resources with a content_file_path
\* for which try_exists does not answer Ok(true).
MissingCount(resources, on_disk) ==
    Cardinality({i \in 1..Len(resources) :
                    /\ IsSome(resources[i].content_file_path)
                    /\ Unwrap(resources[i].content_file_path) \notin on_disk})

\* One attempt of the verification loop, with the one-second sleep that
\* follows an attempt that found a file missing.
ShVerify ==
    /\ proc = "running"
    /\ sh_pc = "verify"
    /\ LET missing_count == MissingCount(inventory, visible)
       IN IF missing_count = 0
          THEN /\ sh_pc' = "done"
               /\ shutdown_log' = Append(shutdown_log, "verified")
               /\ UNCHANGED attempt
          ELSE IF attempt < VerifyAttempts
               THEN /\ attempt' = attempt + 1
                    /\ UNCHANGED <<sh_pc, shutdown_log>>
               ELSE /\ sh_pc' = "done"
                    /\ shutdown_log' = Append(shutdown_log, "unverified")
                    /\ UNCHANGED attempt
    /\ UNCHANGED <<platform, control_port, proc, mgmt, proxy_pc, index_json, visible,
                   delivered>>
    /\ UNCHANGED <<recVars, chunkVars, extVars, playVars, serveVars, matchVars>>

\* shutdown_handler.await returns: start_recording_proxy returns Ok(()).
ProxyJoin ==
    /\ proc = "running"
    /\ proxy_pc = "joining"
    /\ sh_pc = "done"
    /\ proxy_pc' = "returned"
    /\ proc' = "exited"
    /\ UNCHANGED <<platform, control_port, mgmt, sh_pc, index_json, attempt, visible,
                   delivered, shutdown_log>>
    /\ UNCHANGED <<recVars, chunkVars, extVars, playVars, serveVars, matchVars>>

InitShutdown ==
    /\ platform \in Platforms
    /\ control_port \in {None, Some(8081)}
    /\ proc = "running"
    /\ mgmt = IF IsSome(control_port) THEN "binding" ELSE "none"
    /\ sh_pc = "select"
    /\ proxy_pc = "serving"
    /\ index_json = None
    /\ attempt = 0
    /\ visible = {}
    /\ delivered = << >>
    /\ shutdown_log = << >>

NextShutdown ==
    \/ MgmtBind
    \/ \E r \in RecordedResources : RecorderAppend(r)
    \/ \E sig \in Signals(platform) : Signal(sig)
    \/ \E req \in ControlRequests : ControlRequest(req)
    \/ ShSend
    \/ ProxyStop
    \/ ShSleepDone
    \/ ShSave
    \/ ShVerify
    \/ ProxyJoin

InitShutdownOnly ==
    InitRec /\ InitChunksIdle /\ InitPlayIdle /\ InitServeIdle /\ InitMatchIdle
        /\ InitShutdown /\ InitExtIdle

SpecShutdown == InitShutdownOnly /\ [][NextShutdown]_vars

\* The recorder on unix started without a control port, and a file system
\* that changes under the verification loop.
InitVerify ==
    /\ platform = "unix"
    /\ control_port = None
    /\ proc = "running"
    /\ mgmt = "none"
    /\ sh_pc = "select"
    /\ proxy_pc = "serving"
    /\ index_json = None
    /\ attempt = 0
    /\ visible = {}
    /\ delivered = << >>
    /\ shutdown_log = << >>

NextVerify ==
    \/ \E r \in RecordedResources : RecorderAppend(r)
    \/ \E sig \in Signals(platform) : Signal(sig)
    \/ ShSend
    \/ ProxyStop
    \/ ShSleepDone
    \/ ShSave
    \/ ShVerify
    \/ \E path \in ContentPaths : FsChange(path)
    \/ ProxyJoin

InitVerifyOnly ==
    InitRec /\ InitChunksIdle /\ InitPlayIdle /\ InitServeIdle /\ InitMatchIdle
        /\ InitVerify /\ InitExtIdle

\* The runtime polls every task that can make progress: the shutdown handler
\* and start_recording_proxy itself are not starved.
SpecVerify ==
    /\ InitVerifyOnly /\ [][NextVerify]_vars
    /\ WF_vars(ShSend) /\ WF_vars(ShSleepDone) /\ WF_vars(ShSave) /\ WF_vars(ShVerify)
    /\ WF_vars(ProxyStop) /\ WF_vars(ProxyJoin)

----------------------------------------------------------------------------
(* BatchProcessor (recording/batch_processor.rs): process_all and            *)
(* process_resource.  A body is what the origin sent: its text, the charset  *)
(* its bytes are in ("binary" for bytes that are no text), how it is packed, *)
(* whether the beautifier can parse it and whether beautifying doubles its   *)
(* line count.  A file holds text in a charset.                              *)

MaxBatch == 2   \* resources in the inventory given to process_all

Ok(v) == [ok |-> TRUE, value |-> v]
Err(e) == [ok |-> FALSE, error |-> e]

Bodies ==
    { [text |-> "<p>A</p>", charset |-> "shift_jis", packed |-> "identity",
       parses |-> TRUE, minified |-> TRUE, meta_charset |-> None],
      [text |-> "var s = 'A'; }", charset |-> "shift_jis", packed |-> "identity",
       parses |-> FALSE, minified |-> FALSE, meta_charset |-> None],
      [text |-> "PNG", charset |-> "binary", packed |-> "identity",
       parses |-> FALSE, minified |-> FALSE, meta_charset |-> None],
      [text |-> "body{}", charset |-> "utf-8", packed |-> "truncated",
       parses |-> TRUE, minified |-> FALSE, meta_charset |-> None],
      [text |-> "GIF", charset |-> "binary", packed |-> "identity",
       parses |-> FALSE, minified |-> FALSE, meta_charset |-> None] }

BodyOf(text) == CHOOSE b \in Bodies : b.text = text

\* A resource as it is when process_all gets it: the response's headers and
\* its raw body are there, nothing has been derived from the body yet.
RawResource(url, mime, content_type, encoding, raw_body) ==
    [method |-> "GET", url |-> url, raw_headers_content_type |-> content_type,
     content_encoding |-> encoding, content_type_mime |-> mime,
     content_charset |-> None, content_file_path |-> None, content_utf8 |-> None,
     content_base64 |-> None, minify |-> None, raw_body |-> raw_body,
     g_body |-> raw_body]

BatchResources ==
    { RawResource("https://example.com/a.html", Some("text/html"),
                  Some("text/html; charset=Shift_JIS"), None,
                  Some(BodyOf("<p>A</p>"))),
      RawResource("https://example.com/b.js", Some("application/javascript"),
                  Some("application/javascript; charset=Shift_JIS"), None,
                  Some(BodyOf("var s = 'A'; }"))),
      RawResource("https://example.com/c.png", Some("image/png"), Some("image/png"),
                  None, Some(BodyOf("PNG"))),
      RawResource("https://example.com/c.png", Some("image/gif"), Some("image/gif"),
                  None, Some(BodyOf("GIF"))),
      RawResource("https://example.com/d.css", Some("text/css"), Some("text/css"),
                  Some("gzip"), Some(BodyOf("body{}"))),
      RawResource("unknown", None, None, None, Some(BodyOf("PNG"))),
      RawResource("https://example.com/e", None, None, None, None) }

\* The outcomes of the file writes of one process_resource call.
IoOutcomes == [text_write : BOOLEAN, binary_write : BOOLEAN]

\* decompress_body: the decoder named by content_encoding reads the body.
DecompressBody(body, encoding) ==
    IF encoding \in {Some("gzip"), Some("deflate"), Some("br")}
    THEN IF Some(body.packed) = encoding
         THEN Ok([body EXCEPT !.packed = "identity"])
         ELSE Err("decompression")
    ELSE Ok(body)

\* utils::is_text_resource on the mime type.
IsTextResource(mime) ==
    mime \in {"text/html", "text/css", "application/javascript", "text/javascript"}

\* utils::extract_charset_from_content_type.
ExtractCharsetFromContentType(content_type) ==
    CASE content_type = "text/html; charset=Shift_JIS" -> Some("Shift_JIS")
      [] content_type = "application/javascript; charset=Shift_JIS" -> Some("Shift_JIS")
      [] OTHER -> None

\* Encoding::for_label(..).unwrap_or(UTF_8).
EncodingForLabel(charset) ==
    CASE charset = Some("Shift_JIS") -> "shift_jis"
      [] OTHER -> "utf-8"

\* convert_to_utf8: decode the bytes with the encoding of the charset label;
\* the result is a String, that is UTF-8.  Bytes decoded with another
\* encoding than their own come out as replacement characters.
ConvertToUtf8(body, charset) ==
    [text |-> IF body.charset = EncodingForLabel(charset) THEN body.text ELSE "?",
     charset |-> "utf-8", beautified |-> FALSE]

\* beautify_content: the formatter of the mime type parses the text.
BeautifyContent(content, body, mime) ==
    IF mime \in {Some("text/html"), Some("text/css"), Some("application/javascript"),
                 Some("text/javascript")}
    THEN IF body.parses THEN Ok([content EXCEPT !.beautified = TRUE])
         ELSE Err("beautify")
    ELSE Ok(content)

\* utils::generate_file_path_from_url: Url::parse fails on "unknown".
GenerateFilePathFromUrl(url, method) ==
    CASE url = "https://example.com/a.html" -> Ok("get/https/example.com/a.html")
      [] url = "https://example.com/b.js" -> Ok("get/https/example.com/b.js")
      [] url = "https://example.com/c.png" -> Ok("get/https/example.com/c.png")
      [] url = "https://example.com/d.css" -> Ok("get/https/example.com/d.css")
      [] url = "https://example.com/e" -> Ok("get/https/example.com/e")
      [] OTHER -> Err("relative URL without a base")

\* Faulty variant of WriteFile: a file that exists is left as it is.
WriteFileKeepExisting(files, path, content) ==
    [p \in DOMAIN files \cup {path} |-> IF p \in DOMAIN files THEN files[p] ELSE content]

\* file_system.write: the file now holds the content.
WriteFile(files, path, content) ==
    [p \in DOMAIN files \cup {path} |-> IF p = path THEN content ELSE files[p]]

\* process_text_resource.
ProcessTextResource(resource, files, body, io) ==
    LET utf8_content == ConvertToUtf8(body, resource.content_charset)
        beautified == BeautifyContent(utf8_content, body, resource.content_type_mime)
    IN IF ~beautified.ok
       THEN [ok |-> FALSE, resource |-> resource, files |-> files]
       ELSE LET is_minified == body.minified
                r1 == [resource EXCEPT !.minify = Some(is_minified)]
                content_to_save == IF is_minified THEN beautified.value ELSE utf8_content
                file_path == GenerateFilePathFromUrl(r1.url, r1.method)
            IN IF ~file_path.ok \/ ~io.text_write
               THEN [ok |-> FALSE, resource |-> r1, files |-> files]
               ELSE [ok |-> TRUE,
                     resource |-> [r1 EXCEPT !.content_file_path =
                                                 Some("contents/" \o file_path.value)],
                     files |-> WriteFile(files, "contents/" \o file_path.value,
                                         content_to_save)]

\* process_binary_resource: the body goes to content_base64 and, as it is,
\* to the file.
ProcessBinaryResource(resource, files, body, io) ==
    LET r1 == [resource EXCEPT !.content_base64 = Some(<<"base64", body.text>>)]
        file_path == GenerateFilePathFromUrl(r1.url, r1.method)
    IN IF ~file_path.ok \/ ~io.binary_write
       THEN [ok |-> FALSE, resource |-> r1, files |-> files]
       ELSE [ok |-> TRUE,
             resource |-> [r1 EXCEPT !.content_file_path =
                                         Some("contents/" \o file_path.value)],
             files |-> WriteFile(files, "contents/" \o file_path.value,
                                 [text |-> body.text, charset |-> body.charset,
                                  beautified |-> FALSE])]

\* process_resource.
ProcessResource(resource, files, io) ==
    IF resource.raw_body = None
    THEN [ok |-> TRUE, resource |-> resource, files |-> files]
    ELSE LET decompressed == DecompressBody(Unwrap(resource.raw_body),
                                            resource.content_encoding)
         IN IF ~decompressed.ok
            THEN [ok |-> FALSE, resource |-> resource, files |-> files]
            ELSE LET body == decompressed.value
                     is_text == IF IsSome(resource.content_type_mime)
                                THEN IsTextResource(Unwrap(resource.content_type_mime))
                                ELSE FALSE
                     charset == IF IsSome(resource.raw_headers_content_type)
                                THEN LET in_header == ExtractCharsetFromContentType(
                                             Unwrap(resource.raw_headers_content_type))
                                     IN IF in_header = None /\ resource.content_type_mime
                                               \in {Some("text/html"), Some("text/css")}
                                        THEN body.meta_charset
                                        ELSE in_header
                                ELSE resource.content_charset
                     r1 == IF is_text THEN [resource EXCEPT !.content_charset = charset]
                           ELSE resource
                     as_text == ProcessTextResource(r1, files, body, io)
                     as_binary == ProcessBinaryResource(
                                      IF is_text THEN as_text.resource ELSE r1,
                                      IF is_text THEN as_text.files ELSE files, body, io)
                     done == IF is_text /\ as_text.ok THEN as_text ELSE as_binary
                 IN IF done.ok
                    THEN [done EXCEPT !.resource.raw_body = None]
                    ELSE done

\* process_all's loop with the error of a resource propagated.
LoopStepPropagating(idx, outcome_ok, len) ==
    IF outcome_ok THEN [idx |-> idx + 1, result |-> None]
    ELSE [idx |-> len + 1, result |-> Some("Err")]

\* process_all's loop: an Err of process_resource is logged, the loop goes on.
LoopStep(idx, outcome_ok, len) == [idx |-> idx + 1, result |-> None]

\* One iteration of process_all's loop.
ProcessNext(io) ==
    /\ b_result = None
    /\ b_idx \in 1..Len(b_inventory)
    /\ LET outcome == ProcessResource(b_inventory[b_idx], b_files, io)
           step == LoopStep(b_idx, outcome.ok, Len(b_inventory))
       IN /\ b_inventory' = [b_inventory EXCEPT ![b_idx] = outcome.resource]
          /\ b_files' = outcome.files
          /\ b_errors' = IF outcome.ok THEN b_errors ELSE b_errors \cup {b_idx}
          /\ b_idx' = step.idx
          /\ b_result' = step.result
    /\ UNCHANGED <<recVars, chunkVars, playVars, serveVars, matchVars, shutVars>>
    /\ UNCHANGED <<control_log, storeVars, drainVars, moreVars>>

\* process_all returns after the loop.
ProcessAllReturn ==
    /\ b_result = None
    /\ b_idx > Len(b_inventory)
    /\ b_result' = Some("Ok")
    /\ UNCHANGED <<b_inventory, b_idx, b_files, b_errors>>
    /\ UNCHANGED <<recVars, chunkVars, playVars, serveVars, matchVars, shutVars>>
    /\ UNCHANGED <<control_log, storeVars, drainVars, moreVars>>

InitBatch ==
    /\ b_inventory \in SeqsUpTo(BatchResources, MaxBatch)
    /\ b_idx = 1
    /\ b_files = << >>
    /\ b_result = None
    /\ b_errors = {}

NextBatch ==
    \/ \E io \in IoOutcomes : ProcessNext(io)
    \/ ProcessAllReturn

InitBatchOnly ==
    InitRec /\ InitChunksIdle /\ InitPlayIdle /\ InitServeIdle /\ InitMatchIdle
        /\ InitShutIdle /\ control_log = None /\ InitBatch /\ InitStoreIdle
        /\ InitDrainIdle /\ InitMoreIdle

SpecBatch == InitBatchOnly /\ [][NextBatch]_vars

----------------------------------------------------------------------------
(* The inventory on disk: save_inventory_with_fs (recording/proxy.rs),      *)
(* load_inventory and run_playback_mode (playback/mod.rs), with the serde   *)
(* attributes of types.rs.  A JSON value carries its type.                  *)

JStr(v) == [json |-> "string", s |-> v]
JNum(v) == [json |-> "number", n |-> v]
JBool(v) == [json |-> "bool", b |-> v]
JArr(v) == [json |-> "array", a |-> v]
JObj(v) == [json |-> "object", o |-> v]

\* The fields of Resource with their names under rename_all = "camelCase";
\* the Option fields are skipped when None.
ResourceFields ==
    { [field |-> "method", key |-> "method", required |-> TRUE, type |-> "string"],
      [field |-> "url", key |-> "url", required |-> TRUE, type |-> "string"],
      [field |-> "ttfb_ms", key |-> "ttfbMs", required |-> TRUE, type |-> "number"],
      [field |-> "download_end_ms", key |-> "downloadEndMs", required |-> FALSE,
       type |-> "number"],
      [field |-> "mbps", key |-> "mbps", required |-> FALSE, type |-> "number"],
      [field |-> "status_code", key |-> "statusCode", required |-> FALSE, type |-> "number"],
      [field |-> "error_message", key |-> "errorMessage", required |-> FALSE,
       type |-> "string"],
      [field |-> "raw_headers", key |-> "rawHeaders", required |-> FALSE, type |-> "headers"],
      [field |-> "content_encoding", key |-> "contentEncoding", required |-> FALSE,
       type |-> "encoding"],
      [field |-> "content_type_mime", key |-> "contentTypeMime", required |-> FALSE,
       type |-> "string"],
      [field |-> "content_charset", key |-> "contentCharset", required |-> FALSE,
       type |-> "string"],
      [field |-> "content_file_path", key |-> "contentFilePath", required |-> FALSE,
       type |-> "string"],
      [field |-> "content_utf8", key |-> "contentUtf8", required |-> FALSE, type |-> "string"],
      [field |-> "content_base64", key |-> "contentBase64", required |-> FALSE,
       type |-> "string"],
      [field |-> "minify", key |-> "minify", required |-> FALSE, type |-> "bool"] }

ContentEncodingTypes == {"Gzip", "Compress", "Deflate", "Br", "Identity"}
DeviceTypes == {"Desktop", "Mobile"}

\* The variant written as it is named in the code.
VariantToJsonAsIs(variant) == variant

\* rename_all = "lowercase" on ContentEncodingType and DeviceType.
VariantToJson(variant) ==
    CASE variant = "Gzip" -> "gzip"
      [] variant = "Compress" -> "compress"
      [] variant = "Deflate" -> "deflate"
      [] variant = "Br" -> "br"
      [] variant = "Identity" -> "identity"
      [] variant = "Desktop" -> "desktop"
      [] variant = "Mobile" -> "mobile"

\* The names the derived Deserialize accepts, and their variants.
VariantNames ==
    ("gzip" :> "Gzip") @@ ("compress" :> "Compress") @@ ("deflate" :> "Deflate")
        @@ ("br" :> "Br") @@ ("identity" :> "Identity") @@ ("desktop" :> "Desktop")
        @@ ("mobile" :> "Mobile")

\* The variant of the enum that has this name, if any.
VariantFromJson(variants, name) ==
    IF name \in DOMAIN VariantNames /\ VariantNames[name] \in variants
    THEN Ok(VariantNames[name])
    ELSE Err("unknown variant")

\* HeaderValue is untagged: a string or an array of strings.
SerializeHeaderValue(h) ==
    IF h.kind = "Single" THEN JStr(h.values[1])
    ELSE JArr([i \in DOMAIN h.values |-> JStr(h.values[i])])

DeserializeHeaderValue(j) ==
    IF j.json = "string" THEN Ok([kind |-> "Single", values |-> <<j.s>>])
    ELSE IF j.json = "array" /\ \A i \in DOMAIN j.a : j.a[i].json = "string"
         THEN Ok([kind |-> "Multiple", values |-> [i \in DOMAIN j.a |-> j.a[i].s]])
         ELSE Err("data did not match any variant of untagged enum HeaderValue")

SerializeValue(type, value) ==
    CASE type = "string" -> JStr(value)
      [] type = "number" -> JNum(value)
      [] type = "bool" -> JBool(value)
      [] type = "encoding" -> JStr(VariantToJson(value))
      [] type = "headers" -> JObj([name \in DOMAIN value |-> SerializeHeaderValue(value[name])])

DeserializeValue(type, j) ==
    CASE type = "string" -> IF j.json = "string" THEN Ok(j.s) ELSE Err("invalid type")
      [] type = "number" -> IF j.json = "number" THEN Ok(j.n) ELSE Err("invalid type")
      [] type = "bool" -> IF j.json = "bool" THEN Ok(j.b) ELSE Err("invalid type")
      [] type = "encoding" ->
             IF j.json = "string" THEN VariantFromJson(ContentEncodingTypes, j.s)
             ELSE Err("invalid type")
      [] type = "headers" ->
             IF j.json = "object"
                  /\ \A name \in DOMAIN j.o : DeserializeHeaderValue(j.o[name]).ok
             THEN Ok([name \in DOMAIN j.o |-> DeserializeHeaderValue(j.o[name]).value])
             ELSE Err("invalid type")

FieldOfKey(key) == CHOOSE f \in ResourceFields : f.key = key
FieldNamed(field) == CHOOSE f \in ResourceFields : f.field = field

\* Serialize for Resource.
SerializeResource(resource) ==
    LET written == {f \in ResourceFields : f.required \/ IsSome(resource[f.field])}
    IN JObj([key \in {f.key : f \in written} |->
                LET f == FieldOfKey(key)
                IN SerializeValue(f.type, IF f.required THEN resource[f.field]
                                          ELSE Unwrap(resource[f.field]))])

\* Deserialize for Resource: unknown keys are ignored, a missing Option is
\* None, a missing required field or a value of the wrong type is an error.
DeserializeResource(j) ==
    IF j.json /= "object" THEN Err("invalid type")
    ELSE LET known == {f \in ResourceFields : f.key \in DOMAIN j.o}
         IN IF \E f \in ResourceFields : f.required /\ f \notin known
            THEN Err("missing field")
            ELSE IF \E f \in known : ~DeserializeValue(f.type, j.o[f.key]).ok
                 THEN Err("invalid value")
                 ELSE Ok([field \in {f.field : f \in ResourceFields} |->
                             LET f == FieldNamed(field)
                                 value == DeserializeValue(f.type, j.o[f.key]).value
                             IN IF f.required THEN value
                                ELSE IF f \in known THEN Some(value) ELSE None])

\* Serialize for Inventory.
SerializeInventory(inv) ==
    LET keys == {"resources"}
                  \cup (IF IsSome(inv.entry_url) THEN {"entryUrl"} ELSE {})
                  \cup (IF IsSome(inv.device_type) THEN {"deviceType"} ELSE {})
    IN JObj([key \in keys |->
                CASE key = "entryUrl" -> JStr(Unwrap(inv.entry_url))
                  [] key = "deviceType" -> JStr(VariantToJson(Unwrap(inv.device_type)))
                  [] key = "resources" ->
                         JArr([i \in DOMAIN inv.resources |->
                                  SerializeResource(inv.resources[i])])])

\* Deserialize for Inventory.
DeserializeInventory(j) ==
    IF j.json /= "object" THEN Err("invalid type")
    ELSE IF "resources" \notin DOMAIN j.o THEN Err("missing field resources")
    ELSE IF j.o.resources.json /= "array" THEN Err("invalid type")
    ELSE IF \E i \in DOMAIN j.o.resources.a : ~DeserializeResource(j.o.resources.a[i]).ok
    THEN Err("invalid resource")
    ELSE IF "entryUrl" \in DOMAIN j.o /\ j.o.entryUrl.json /= "string"
    THEN Err("invalid type")
    ELSE IF "deviceType" \in DOMAIN j.o
              /\ (j.o.deviceType.json /= "string"
                      \/ ~VariantFromJson(DeviceTypes, j.o.deviceType.s).ok)
    THEN Err("unknown variant")
    ELSE Ok([entry_url |-> IF "entryUrl" \in DOMAIN j.o THEN Some(j.o.entryUrl.s) ELSE None,
             device_type |-> IF "deviceType" \in DOMAIN j.o
                             THEN Some(VariantFromJson(DeviceTypes, j.o.deviceType.s).value)
                             ELSE None,
             resources |-> [i \in DOMAIN j.o.resources.a |->
                               DeserializeResource(j.o.resources.a[i]).value]])

\* Resource::new.
ResourceNew(method, url) ==
    [method |-> method, url |-> url, ttfb_ms |-> 0, download_end_ms |-> None,
     mbps |-> None, status_code |-> None, error_message |-> None, raw_headers |-> None,
     content_encoding |-> None, content_type_mime |-> None, content_charset |-> None,
     content_file_path |-> None, content_utf8 |-> None, content_base64 |-> None,
     minify |-> None]

\* A resource with every field set.
FullResource ==
    [method |-> "PUT", url |-> "https://api.example.com/data?id=123", ttfb_ms |-> 300,
     download_end_ms |-> Some(450), mbps |-> Some(5), status_code |-> Some(204),
     error_message |-> Some("Rate limited"),
     raw_headers |-> Some(("content-type" :> [kind |-> "Single",
                                              values |-> <<"application/json">>])
                          @@ ("set-cookie" :> [kind |-> "Multiple",
                                               values |-> <<"a=1", "b=2">>])
                          @@ ("vary" :> [kind |-> "Multiple", values |-> <<"accept">>])),
     content_encoding |-> Some("Gzip"), content_type_mime |-> Some("application/json"),
     content_charset |-> Some("UTF-8"),
     content_file_path |-> Some("contents/put/https/api.example.com/data~id%3D123"),
     content_utf8 |-> Some("{ test: data }"), content_base64 |-> Some("e30="),
     minify |-> Some(TRUE)]

\* Inventory::new.
InventoryNew == [entry_url |-> None, device_type |-> None, resources |-> << >>]

StoredInventories ==
    { InventoryNew,
      [entry_url |-> Some("https://example.com"), device_type |-> Some("Desktop"),
       resources |-> <<ResourceNew("GET", "https://example.com/api/test")>>],
      [entry_url |-> None, device_type |-> Some("Mobile"),
       resources |-> <<FullResource, ResourceNew("GET", "https://example.com/api/test")>>],
      [entry_url |-> None, device_type |-> Some("Mobile"),
       resources |-> <<ResourceNew("GET", "https://example.com/api/test"), FullResource>>] }

MaxSaves == 1   \* save_inventory calls in a run

InventoryDirs == {"./inventory", "./other"}

IndexPath(inventory_dir) == inventory_dir \o "/index.json"

\* What a file can hold: a JSON document or text that is no JSON.
JsonFile(doc) == [kind |-> "json", doc |-> doc]
TextFile(text) == [kind |-> "text", text |-> text]

\* index.json files that no save of this model wrote.
ForeignFiles ==
    { TextFile("{ invalid json"),
      TextFile(""),
      JsonFile(JObj([key \in {"entryUrl"} |-> JStr("https://example.com")])),
      JsonFile(JObj([key \in {"resources"} |-> JStr("none")])),
      JsonFile(JObj([key \in {"resources"} |->
                        JArr(<<JObj([key2 \in {"method"} |-> JStr("GET")])>>)])),
      JsonFile(JObj([key \in {"resources", "version"} |->
                        IF key = "version" THEN JNum(2) ELSE JArr(<< >>)])) }

\* serde_json::from_str::<Inventory>.
FromStr(content) ==
    IF content.kind = "json" THEN DeserializeInventory(content.doc)
    ELSE Err("expected value")

\* load_inventory with a default inventory for a missing file.
LoadInventoryOrDefault(files, inventory_dir) ==
    IF IndexPath(inventory_dir) \notin DOMAIN files THEN Ok(InventoryNew)
    ELSE FromStr(files[IndexPath(inventory_dir)])

\* load_inventory: read_to_string, then from_str, each with `?`.
LoadInventoryOf(files, inventory_dir) ==
    IF IndexPath(inventory_dir) \notin DOMAIN files THEN Err("No such file or directory")
    ELSE FromStr(files[IndexPath(inventory_dir)])

\* The ways save_inventory_with_fs can go: create_dir_all fails, File::create
\* fails, write_all or sync_all fails after the file was truncated, or all
\* succeed.
SaveOutcomes == {"ok", "create_dir_all", "create", "write_all"}

\* The save attempts made so far, over all directories.
SavesMade == Len(saved["./inventory"]) + Len(saved["./other"])

\* save_inventory_with_fs, by a recorder that ran before any player.
SaveInventory(inv, inventory_dir, io) ==
    /\ playback_pc = "idle"
    /\ load_result = None
    /\ SavesMade < MaxSaves
    /\ fs_dirs' = IF io = "create_dir_all" THEN fs_dirs ELSE fs_dirs \cup {inventory_dir}
    /\ fs_files' =
           CASE io = "ok" -> WriteFile(fs_files, IndexPath(inventory_dir),
                                       JsonFile(SerializeInventory(inv)))
             [] io = "write_all" -> WriteFile(fs_files, IndexPath(inventory_dir), TextFile(""))
             [] OTHER -> fs_files
    /\ save_result' = Some(IF io = "ok" THEN Ok("()") ELSE Err(io))
    /\ saved' = [saved EXCEPT ![inventory_dir] = Append(@, [inv |-> inv, ok |-> io = "ok"])]
    /\ UNCHANGED <<load_result, playback_pc>>
    /\ UNCHANGED <<recVars, chunkVars, playVars, serveVars, matchVars, shutVars>>
    /\ UNCHANGED <<control_log, batchVars, drainVars, moreVars>>

\* load_inventory.
LoadInventory(inventory_dir) ==
    /\ playback_pc = "idle"
    /\ load_result' = Some([dir |-> inventory_dir,
                            result |-> LoadInventoryOf(fs_files, inventory_dir),
                            g_saved |-> saved[inventory_dir]])
    /\ UNCHANGED <<fs_dirs, fs_files, saved, save_result, playback_pc>>
    /\ UNCHANGED <<recVars, chunkVars, playVars, serveVars, matchVars, shutVars>>
    /\ UNCHANGED <<control_log, batchVars, drainVars, moreVars>>

\* run_playback_mode: load_inventory?, convert_resources_to_transactions?,
\* then start_playback_proxy, which binds the listener.
RunPlaybackMode(inventory_dir, convert_ok, bind_ok) ==
    /\ playback_pc = "idle"
    /\ LET loaded_inv == LoadInventoryOf(fs_files, inventory_dir)
       IN /\ load_result' = Some([dir |-> inventory_dir, result |-> loaded_inv,
                                  g_saved |-> saved[inventory_dir]])
          /\ playback_pc' = IF loaded_inv.ok /\ convert_ok /\ bind_ok THEN "listening"
                            ELSE "failed"
    /\ UNCHANGED <<fs_dirs, fs_files, saved, save_result>>
    /\ UNCHANGED <<recVars, chunkVars, playVars, serveVars, matchVars, shutVars>>
    /\ UNCHANGED <<control_log, batchVars, drainVars, moreVars>>

InitStore ==
    /\ fs_dirs \in {{}, {"./inventory"}}
    /\ fs_files \in {<< >>} \cup
           (IF "./inventory" \in fs_dirs
            THEN {WriteFile(<< >>, IndexPath("./inventory"), f) : f \in ForeignFiles}
            ELSE {})
    /\ saved = [d \in InventoryDirs |-> << >>]
    /\ save_result = None
    /\ load_result = None
    /\ playback_pc = "idle"

NextStore ==
    \/ \E inv \in StoredInventories, d \in InventoryDirs, io \in SaveOutcomes :
           SaveInventory(inv, d, io)
    \/ \E d \in InventoryDirs : LoadInventory(d)
    \/ \E d \in InventoryDirs, convert_ok \in BOOLEAN, bind_ok \in BOOLEAN :
           RunPlaybackMode(d, convert_ok, bind_ok)

InitStoreOnly ==
    InitRec /\ InitChunksIdle /\ InitPlayIdle /\ InitServeIdle /\ InitMatchIdle
        /\ InitShutIdle /\ control_log = None /\ InitBatchIdle /\ InitStore
        /\ InitDrainIdle /\ InitMoreIdle

SpecStore == InitStoreOnly /\ [][NextStore]_vars

----------------------------------------------------------------------------
(* start_playback_proxy (playback/proxy.rs): the accept loop, the signal    *)
(* task, the connection tasks, and the return to main, whose runtime is     *)
(* dropped with the tasks still on it.                                      *)

MaxConns == 2     \* connections accepted in a run
MaxSignals == 2   \* signals delivered to the player in a run

\* playback/signal_handler.rs on unix: SIGINT and SIGTERM are both awaited.
PlayerSignals == {"SIGINT", "SIGTERM"}

\* listener.accept() is ready and the select takes it: a task is spawned for
\* the connection; its request is matched and serve_transaction starts with
\* the TTFB sleep.
Accept ==
    /\ d_proc = "running"
    /\ d_main \in {"accepting", "notified"}
    /\ Len(d_conns) < MaxConns
    /\ d_conns' = Append(d_conns, "ttfb_sleep")
    /\ UNCHANGED <<d_proc, d_main, d_signals>>
    /\ UNCHANGED <<recVars, chunkVars, playVars, serveVars, matchVars, shutVars>>
    /\ UNCHANGED <<control_log, batchVars, storeVars, moreVars>>

\* A connection task goes on: the TTFB sleep ends and the head is sent, or
\* the body stream reaches its end.
ConnStep(c) ==
    /\ d_proc = "running"
    /\ c \in DOMAIN d_conns
    /\ d_conns[c] \in {"ttfb_sleep", "streaming"}
    /\ d_conns' = [d_conns EXCEPT ![c] = IF @ = "ttfb_sleep" THEN "streaming"
                                         ELSE "complete"]
    /\ UNCHANGED <<d_proc, d_main, d_signals>>
    /\ UNCHANGED <<recVars, chunkVars, playVars, serveVars, matchVars, shutVars>>
    /\ UNCHANGED <<control_log, batchVars, storeVars, moreVars>>

\* A signal: the first one completes wait_for_shutdown_signal and the signal
\* task sends on shutdown_tx; later ones find no task waiting.
PlayerSignal(sig) ==
    /\ d_proc = "running"
    /\ Len(d_signals) < MaxSignals
    /\ d_signals' = Append(d_signals, sig)
    /\ d_main' = IF d_signals = << >> /\ d_main = "accepting" THEN "notified" ELSE d_main
    /\ UNCHANGED <<d_proc, d_conns>>
    /\ UNCHANGED <<recVars, chunkVars, playVars, serveVars, matchVars, shutVars>>
    /\ UNCHANGED <<control_log, batchVars, storeVars, moreVars>>

\* The select takes main_shutdown_rx.recv(): break, the listener is dropped
\* and start_playback_proxy returns Ok(()).
MainBreak ==
    /\ d_proc = "running"
    /\ d_main = "notified"
    /\ d_main' = "returned"
    /\ UNCHANGED <<d_proc, d_conns, d_signals>>
    /\ UNCHANGED <<recVars, chunkVars, playVars, serveVars, matchVars, shutVars>>
    /\ UNCHANGED <<control_log, batchVars, storeVars, moreVars>>

\* main returns: the runtime is dropped, every task that has not finished is
\* dropped where it waits, and the process ends.
MainReturn ==
    /\ d_proc = "running"
    /\ d_main = "returned"
    /\ d_proc' = "exited"
    /\ d_conns' = [c \in DOMAIN d_conns |->
                      IF d_conns[c] = "complete" THEN "complete"
                      ELSE IF d_conns[c] = "ttfb_sleep" THEN "dropped_in_ttfb_sleep"
                      ELSE "dropped_in_stream"]
    /\ UNCHANGED <<d_main, d_signals>>
    /\ UNCHANGED <<recVars, chunkVars, playVars, serveVars, matchVars, shutVars>>
    /\ UNCHANGED <<control_log, batchVars, storeVars, moreVars>>

InitDrain ==
    /\ d_proc = "running"
    /\ d_main = "accepting"
    /\ d_conns = << >>
    /\ d_signals = << >>

NextDrain ==
    \/ Accept
    \/ \E c \in 1..MaxConns : ConnStep(c)
    \/ \E sig \in PlayerSignals : PlayerSignal(sig)
    \/ MainBreak
    \/ MainReturn

InitDrainOnly ==
    InitRec /\ InitChunksIdle /\ InitPlayIdle /\ InitServeIdle /\ InitMatchIdle
        /\ InitShutIdle /\ control_log = None /\ InitBatchIdle /\ InitStoreIdle
        /\ InitDrain /\ InitMoreIdle

SpecDrain == InitDrainOnly /\ [][NextDrain]_vars

----------------------------------------------------------------------------
(* Concurrent playback (playback/proxy.rs): one task per connection, each   *)
(* running handle_playback_request and serve_transaction with its own       *)
(* locals.  The clock is in milliseconds.  The runtime has a worker for     *)
(* every task that is ready, so time passes only when no task is ready.     *)

MaxConcConns == 2     \* connections accepted in a run
MaxConcClockMs == 5   \* the clock runs for MaxConcClockMs milliseconds

\* Transactions as create_chunks leaves them: the first chunk at 0, target
\* times in order, target_close_time at least 1 and not before the last chunk.
ConcTransactions ==
    { [url |-> "https://example.com/slow", ttfb |-> 2,
       chunks |-> << [target_time |-> 0], [target_time |-> 1] >>,
       target_close_time |-> 2],
      [url |-> "https://example.com/fast", ttfb |-> 0,
       chunks |-> << [target_time |-> 0] >>,
       target_close_time |-> 1] }

\* Faulty variant of ReadBlocked: the guard is exclusive and kept while
\* serve_transaction runs.
ReadBlockedWhileServing(conns, c) ==
    \E d \in DOMAIN conns : d /= c /\ conns[d].pc = "ttfb_sleep"

\* transactions.read().await: a read guard waits for a writer only, and
\* nothing ever takes the write side; the guard is dropped at the end of the
\* block that clones the Arc.
ReadBlocked(conns, c) == FALSE

\* The task of connection c can run now: it is not waiting, or what it waits
\* for has come.
ConcReady(c) ==
    LET k == c_conns[c]
    IN \/ k.pc = "lookup" /\ ~ReadBlocked(c_conns, c)
       \/ k.pc = "poll"
       \/ k.pc \in {"ttfb_sleep", "chunk_sleep", "close_sleep"} /\ c_clock >= k.wake

\* listener.accept() and tokio::spawn: a request for transaction x arrives on
\* a new connection.
ConcAccept(x) ==
    /\ Len(c_conns) < MaxConcConns
    /\ c_conns' = Append(c_conns,
                         [txn |-> x, pc |-> "lookup", wake |-> 0, ttfb_end_instant |-> 0,
                          iter |-> 1, sent_all |-> FALSE,
                          g_accepted_at |-> c_clock, g_head_at |-> None,
                          g_sent |-> << >>, g_end |-> None])
    /\ UNCHANGED <<c_clock, pathVars>>
    /\ UNCHANGED <<recVars, chunkVars, playVars, serveVars, matchVars, shutVars>>
    /\ UNCHANGED <<control_log, batchVars, storeVars, drainVars>>

\* handle_playback_request: the snapshot is read, the transaction is found and
\* serve_transaction starts its TTFB sleep.
ConcLookup(c) ==
    /\ c \in DOMAIN c_conns
    /\ c_conns[c].pc = "lookup"
    /\ ~ReadBlocked(c_conns, c)
    /\ c_conns' = [c_conns EXCEPT ![c].pc = "ttfb_sleep",
                                  ![c].wake = c_clock + c_conns[c].txn.ttfb]
    /\ UNCHANGED <<c_clock, pathVars>>
    /\ UNCHANGED <<recVars, chunkVars, playVars, serveVars, matchVars, shutVars>>
    /\ UNCHANGED <<control_log, batchVars, storeVars, drainVars>>

\* The TTFB sleep of connection c is over: ttfb_end_instant is read and the
\* head goes out with the body stream.
ConcTtfbWake(c) ==
    /\ c \in DOMAIN c_conns
    /\ c_conns[c].pc = "ttfb_sleep"
    /\ c_clock >= c_conns[c].wake
    /\ c_conns' = [c_conns EXCEPT ![c].pc = "poll",
                                  ![c].ttfb_end_instant = c_clock,
                                  ![c].g_head_at = Some(c_clock)]
    /\ UNCHANGED <<c_clock, pathVars>>
    /\ UNCHANGED <<recVars, chunkVars, playVars, serveVars, matchVars, shutVars>>
    /\ UNCHANGED <<control_log, batchVars, storeVars, drainVars>>

\* The chunk at k.iter is yielded.
ConcYield(k) ==
    [k EXCEPT !.pc = "poll",
              !.iter = k.iter + 1,
              !.sent_all = IsLast(k.txn.chunks, k.iter + 1),
              !.g_sent = Append(k.g_sent, c_clock)]

\* The body stream of connection c is polled: one call of the unfold
\* closure, up to its first sleep or to its return.
ConcPoll(c) ==
    /\ c \in DOMAIN c_conns
    /\ c_conns[c].pc = "poll"
    /\ LET k == c_conns[c]
           elapsed == c_clock - k.ttfb_end_instant
       IN c_conns' = [c_conns EXCEPT ![c] =
            IF k.sent_all
            THEN LET wait == CloseWait(k.txn.target_close_time, elapsed)
                 IN IF IsSome(wait)
                    THEN [k EXCEPT !.pc = "close_sleep", !.wake = c_clock + Unwrap(wait)]
                    ELSE [k EXCEPT !.pc = "done", !.g_end = Some(c_clock)]
            ELSE IF k.iter <= Len(k.txn.chunks)
                 THEN LET wait == ChunkWait(k.txn.chunks[k.iter].target_time, elapsed)
                      IN IF IsSome(wait)
                         THEN [k EXCEPT !.pc = "chunk_sleep", !.wake = c_clock + Unwrap(wait)]
                         ELSE ConcYield(k)
                 ELSE [k EXCEPT !.pc = "done", !.g_end = Some(c_clock)]]
    /\ UNCHANGED <<c_clock, pathVars>>
    /\ UNCHANGED <<recVars, chunkVars, playVars, serveVars, matchVars, shutVars>>
    /\ UNCHANGED <<control_log, batchVars, storeVars, drainVars>>

\* A sleep of the body stream of connection c is over: the chunk is yielded,
\* or the stream returns None.
ConcStreamWake(c) ==
    /\ c \in DOMAIN c_conns
    /\ c_conns[c].pc \in {"chunk_sleep", "close_sleep"}
    /\ c_clock >= c_conns[c].wake
    /\ c_conns' = [c_conns EXCEPT ![c] =
                      IF @.pc = "chunk_sleep" THEN ConcYield(@)
                      ELSE [@ EXCEPT !.pc = "done", !.g_end = Some(c_clock)]]
    /\ UNCHANGED <<c_clock, pathVars>>
    /\ UNCHANGED <<recVars, chunkVars, playVars, serveVars, matchVars, shutVars>>
    /\ UNCHANGED <<control_log, batchVars, storeVars, drainVars>>

\* A millisecond passes while no task is ready.
ConcTick ==
    /\ c_clock < MaxConcClockMs
    /\ \A c \in DOMAIN c_conns : ~ConcReady(c)
    /\ c_clock' = c_clock + 1
    /\ UNCHANGED <<c_conns, pathVars>>
    /\ UNCHANGED <<recVars, chunkVars, playVars, serveVars, matchVars, shutVars>>
    /\ UNCHANGED <<control_log, batchVars, storeVars, drainVars>>

InitConc ==
    /\ c_clock = 0
    /\ c_conns = << >>

NextConc ==
    \/ \E x \in ConcTransactions : ConcAccept(x)
    \/ \E c \in 1..MaxConcConns : ConcLookup(c)
    \/ \E c \in 1..MaxConcConns : ConcTtfbWake(c)
    \/ \E c \in 1..MaxConcConns : ConcPoll(c)
    \/ \E c \in 1..MaxConcConns : ConcStreamWake(c)
    \/ ConcTick

InitConcOnly ==
    InitRec /\ InitChunksIdle /\ InitPlayIdle /\ InitServeIdle /\ InitMatchIdle
        /\ InitShutIdle /\ control_log = None /\ InitBatchIdle /\ InitStoreIdle
        /\ InitDrainIdle /\ InitConc /\ InitPathIdle

SpecConc == InitConcOnly /\ [][NextConc]_vars

----------------------------------------------------------------------------
(* utils::generate_file_path_from_url on a parsed URL.  A path segment is   *)
(* the sequence of its dot-separated pieces (script.js is <<"script",       *)
(* "js">>), a query the sequence of its characters.  The SHA-1 digest is    *)
(* held as a term over its input: two inputs have the same digest only if   *)
(* they are the same.                                                       *)

QueryPrefixLen == 32

A32 == [i \in 1..QueryPrefixLen |-> "a"]

UrlPaths ==
    { [segments |-> << >>, ends_with_slash |-> TRUE],
      [segments |-> << <<"path">>, <<"resource">> >>, ends_with_slash |-> FALSE],
      [segments |-> << <<"script", "js">> >>, ends_with_slash |-> FALSE],
      [segments |-> << <<"jquery", "min", "js">> >>, ends_with_slash |-> FALSE],
      [segments |-> << <<"dir">> >>, ends_with_slash |-> TRUE] }

UrlQueries ==
    { None, Some(<< >>), Some(<<"v", "=", "1">>), Some(<<"v", "=", "2">>),
      Some(A32), Some(A32 \o <<"b">>), Some(A32 \o <<"c">>) }

ParsedUrls ==
    [method : {"GET", "POST"}, scheme : {"https"}, host : {"example.com"},
     path : UrlPaths, query : UrlQueries]

\* The pieces joined with the separator between them.
RECURSIVE Join(_, _)
Join(pieces, sep) ==
    IF pieces = << >> THEN ""
    ELSE IF Len(pieces) = 1 THEN pieces[1]
    ELSE pieces[1] \o sep \o Join(Tail(pieces), sep)

\* method.to_lowercase()
MethodToLowercase(method) ==
    CASE method = "GET" -> "get"
      [] method = "POST" -> "post"
      [] OTHER -> method

\* urlencoding::encode: letters, digits and - _ . ~ stay, any other byte
\* becomes %XX.
RECURSIVE UrlEncode(_)
UrlEncode(chars) ==
    IF chars = << >> THEN ""
    ELSE (CASE Head(chars) = "=" -> "%3D"
            [] Head(chars) = "&" -> "%26"
            [] OTHER -> Head(chars)) \o UrlEncode(Tail(chars))

\* hex::encode(Sha1::digest(remaining))
Sha1Hex(chars) == "sha1(" \o Join(chars, "") \o ")"

\* last_segment.rfind('.') and split_at: the name and the extension with its
\* dot, or no extension.
SplitAtLastDot(segment) ==
    IF Len(segment) > 1
    THEN [name |-> Join(SubSeq(segment, 1, Len(segment) - 1), "."),
          ext |-> "." \o segment[Len(segment)]]
    ELSE [name |-> segment[1], ext |-> ""]

\* What the query adds to the file name.
QueryTag(query) ==
    IF Len(query) <= QueryPrefixLen
    THEN "~" \o UrlEncode(query)
    ELSE "~" \o UrlEncode(SubSeq(query, 1, QueryPrefixLen)) \o ".~"
             \o Sha1Hex(SubSeq(query, QueryPrefixLen + 1, Len(query)))

\* generate_file_path_from_url(url, method), url parsed as u.
GenerateFilePath(u, method) ==
    LET base == MethodToLowercase(method) \o "/" \o u.scheme \o "/" \o u.host
        segs == u.path.segments
    IN IF segs = << >>
       THEN base \o "/index.html"
       ELSE LET all == IF u.path.ends_with_slash THEN Append(segs, <<"index", "html">>)
                       ELSE segs
                front == [i \in 1..(Len(all) - 1) |-> Join(all[i], ".")]
                last == all[Len(all)]
                dir == base \o "/" \o (IF front = << >> THEN "" ELSE Join(front, "/") \o "/")
            IN IF IsSome(u.query) /\ Unwrap(u.query) /= << >>
               THEN LET split == SplitAtLastDot(last)
                    IN dir \o split.name \o QueryTag(Unwrap(u.query)) \o split.ext
               ELSE dir \o Join(last, ".")

InitPath ==
    /\ p_url \in {Some(u) : u \in ParsedUrls}
    /\ p_path = None

\* One call of generate_file_path_from_url.
GeneratePath ==
    /\ IsSome(p_url)
    /\ p_path = None
    /\ p_path' = Some(GenerateFilePath(Unwrap(p_url), Unwrap(p_url).method))
    /\ UNCHANGED <<p_url, concVars>>
    /\ UNCHANGED <<recVars, chunkVars, playVars, serveVars, matchVars, shutVars>>
    /\ UNCHANGED <<control_log, batchVars, storeVars, drainVars>>

NextPath == GeneratePath

InitPathOnly ==
    InitRec /\ InitChunksIdle /\ InitPlayIdle /\ InitServeIdle /\ InitMatchIdle
        /\ InitShutIdle /\ control_log = None /\ InitBatchIdle /\ InitStoreIdle
        /\ InitDrainIdle /\ InitConcIdle /\ InitPath

SpecPath == InitPathOnly /\ [][NextPath]_vars

----------------------------------------------------------------------------
(* Properties of the recorder.                                             *)

Entries == 1..Len(inventory)

Range(f) == {f[i] : i \in DOMAIN f}

\* C1: the i-th response handled on a connection is paired with the method,
\* URL and request-start instant of the i-th request pushed on that connection.
C1_FifoPairing ==
    \A k \in Entries :
        LET p == pairing[k] IN
        /\ IsSome(p.info)
        /\ Unwrap(p.info).g_conn = p.conn
        /\ Unwrap(p.info).g_idx = p.idx
        /\ p.idx <= Len(pushed[p.conn])
        /\ inventory[k].method = pushed[p.conn][p.idx].method
        /\ inventory[k].url = pushed[p.conn][p.idx].url
        /\ inventory[k].ttfb_ms =
               DurationSinceMs(p.ttfb_instant, pushed[p.conn][p.idx].request_start)

\* C2: a response on one connection is never paired with request info pushed
\* by another connection.
C2_NoCrossConnection ==
    /\ \A k \in Entries :
           IsSome(pairing[k].info) => Unwrap(pairing[k].info).g_conn = pairing[k].conn
    /\ \A t \in tasks :
           IsSome(t.g_info) => Unwrap(t.g_info).g_conn = t.conn

\* A response was paired while another peer's queue held an older request.
C2_Witness ==
    \E k \in Entries :
        /\ IsSome(pairing[k].info)
        /\ \E c \in DOMAIN request_infos :
               /\ c /= pairing[k].conn
               /\ request_infos[c] /= << >>
               /\ request_infos[c][1].request_start < pairing[k].ttfb_instant

\* C3: a response whose body could not be read still has a Resource in the
\* inventory.
C3_BodyErrorPersisted ==
    \A r \in relayed :
        r.outcome = "body_error" =>
            \E k \in Entries : pairing[k].conn = r.conn /\ pairing[k].idx = r.idx

\* C4: a request whose forwarding failed is captured as a Resource with
\* errorMessage set and statusCode 502 or 504.
C4_UpstreamFailureCaptured ==
    \A f \in upstreamFailed :
        \E k \in Entries :
            /\ inventory[k].url = pushed[f[1]][f[2]].url
            /\ IsSome(inventory[k].error_message)
            /\ inventory[k].status_code \in {Some(502), Some(504)}

\* C5: a response for which the peer's queue gave nothing is recorded as a
\* degraded Resource (GET, "unknown", the response's status and headers) and
\* the buffered response is relayed to the client.
C5_DegradedRecorded ==
    /\ \A k \in Entries :
           ~IsSome(pairing[k].info) =>
               LET res == origin[pairing[k].conn][pairing[k].idx]
                   rh == Unwrap(inventory[k].raw_headers)
               IN /\ inventory[k].method = "GET"
                  /\ inventory[k].url = "unknown"
                  /\ inventory[k].status_code = Some(res.status)
                  /\ \A i \in 1..Len(res.headers) :
                         IsSome(ToStr(res.headers[i][2])) =>
                             /\ res.headers[i][1] \in DOMAIN rh
                             /\ res.headers[i][2] \in Range(rh[res.headers[i][1]].values)
                  /\ \E r \in relayed :
                         /\ r.conn = pairing[k].conn /\ r.idx = pairing[k].idx
                         /\ r.outcome = "buffered"
                         /\ r.status = res.status /\ r.body = res.body
    /\ \A r \in relayed :
           (r.outcome = "buffered" /\ ~IsSome(r.g_info)) =>
               \E k \in Entries :
                   /\ pairing[k].conn = r.conn /\ pairing[k].idx = r.idx
                   /\ ~IsSome(pairing[k].info)
    /\ \A t \in tasks :
           (t.pc = "process" /\ ~IsSome(t.g_info)) =>
               t.resource.method = "GET" /\ t.resource.url = "unknown"

\* A degraded Resource is in the inventory, recorded for a peer whose queue
\* had been emptied by an earlier, matched response.
C5_Witness ==
    \E k, j \in Entries :
        /\ j < k
        /\ pairing[j].conn = pairing[k].conn
        /\ IsSome(pairing[j].info)
        /\ ~IsSome(pairing[k].info)
        /\ \E r \in relayed : r.conn = pairing[k].conn /\ r.idx = pairing[k].idx

\* C6: every Resource appended has downloadEndMs >= ttfbMs >= 0.
C6_TimingOrdered ==
    \A k \in Entries :
        /\ IsSome(inventory[k].download_end_ms)
        /\ Unwrap(inventory[k].download_end_ms) >= inventory[k].ttfb_ms
        /\ inventory[k].ttfb_ms >= 0

\* A matched Resource with a measurable transfer time and a degraded one.
C6_Witness ==
    /\ \E k \in Entries :
           /\ IsSome(pairing[k].info)
           /\ Unwrap(inventory[k].download_end_ms) > inventory[k].ttfb_ms
    /\ \E k \in Entries : ~IsSome(pairing[k].info)

\* The hop-by-hop header names, as the recorder sees them (lower case).
HopByHopNames ==
    {"connection", "keep-alive", "transfer-encoding", "te", "trailer", "upgrade",
     "proxy-connection", "proxy-authenticate", "proxy-authorization", "host"}

\* C7: no Resource of the inventory has a hop-by-hop header among its
\* rawHeaders.
C7_NoHopByHopPersisted ==
    \A k \in Entries :
        IsSome(inventory[k].raw_headers) =>
            DOMAIN Unwrap(inventory[k].raw_headers) \cap HopByHopNames = {}
\* C39: a response that handle_response has returned with its buffered body
\* has its resource in the shared inventory already: the entry made by that
\* very call, with the response's status.
C39_RelayedAfterAppend ==
    \A r \in relayed :
        r.outcome = "buffered" =>
            \E i \in 1..Len(pairing) :
                /\ pairing[i].conn = r.conn
                /\ pairing[i].idx = r.idx
                /\ i <= Len(inventory)
                /\ inventory[i].status_code = Some(r.status)

\* C39 witness: one response has been relayed with its body while another
\* one, still being processed, is neither in the inventory nor relayed.
C39_Witness ==
    /\ \E r \in relayed : r.outcome = "buffered" /\ r.body /= ""
    /\ \E t \in tasks :
           /\ t.pc = "process"
           /\ \A r \in relayed : <<r.conn, r.idx>> /= <<t.conn, t.idx>>
           /\ \A i \in 1..Len(pairing) : <<pairing[i].conn, pairing[i].idx>> /= <<t.conn, t.idx>>

\* The request-info FIFO of a peer; a peer that has sent nothing has none.
QueueOf(c) == IF c \in DOMAIN request_infos THEN request_infos[c] ELSE << >>

\* History: the handle_response calls on a peer's connection that are past
\* the buffering of the body, whichever way it ended.
Handled(c) == respStarted[c] - Cardinality({t \in tasks : t.conn = c /\ t.pc = "collect"})

\* C40: a peer's FIFO holds as many entries as requests other than CONNECT
\* were seen on its connection minus the responses handled on it, and it is
\* empty once every request has had its outcome and no response is in flight.
C40_QueueTracksOutstanding ==
    \A c \in Conns :
        /\ Len(QueueOf(c)) = Len(pushed[c]) - Handled(c)
        /\ (answered[c] = Len(pushed[c]) /\ \A t \in tasks : t.conn /= c)
               => QueueOf(c) = << >>

----------------------------------------------------------------------------
(* Properties of create_chunks.                                            *)

\* The slice that the chunks, laid end to end, make up; Broken if a byte is
\* lost, repeated or out of place.
Broken == [from |-> -1, to |-> -1]

RECURSIVE ConcatSlices(_)
ConcatSlices(chunks) ==
    IF chunks = << >> THEN [from |-> 0, to |-> 0]
    ELSE LET n == Len(chunks)
             front == ConcatSlices(SubSeq(chunks, 1, n - 1))
             last == chunks[n].chunk
         IN IF front /= Broken /\ last.from = front.to /\ last.to >= last.from
            THEN [from |-> front.from, to |-> last.to]
            ELSE Broken

\* C8: the chunks' bytes, concatenated in order, are the wire body.
C8_ChunksReconstructBody ==
    IsSome(chunk_out) =>
        ConcatSlices(Unwrap(chunk_out).chunks) =
            [from |-> 0, to |-> Unwrap(chunk_in).total_size]

\* A body one byte longer than two full chunks was split in three.
C8_Witness ==
    /\ IsSome(chunk_out)
    /\ Unwrap(chunk_in).total_size = 2 * CHUNK_SIZE + 1
    /\ Len(Unwrap(chunk_out).chunks) = 3

\* C9: chunk target times never decrease and targetCloseMs is not before the
\* last chunk's target time.
C9_TargetTimesMonotone ==
    IsSome(chunk_out) =>
        LET chunks == Unwrap(chunk_out).chunks IN
        /\ \A i \in 1..(Len(chunks) - 1) : chunks[i + 1].target_time >= chunks[i].target_time
        /\ chunks /= << >> =>
               Unwrap(chunk_out).target_close_time >= chunks[Len(chunks)].target_time

\* Three chunks with increasing target times.
C9_Witness ==
    /\ IsSome(chunk_out)
    /\ Len(Unwrap(chunk_out).chunks) >= 3
    /\ Unwrap(chunk_out).chunks[2].target_time > 0
    /\ Unwrap(chunk_out).chunks[3].target_time > Unwrap(chunk_out).chunks[2].target_time

\* C33: for a body that is not empty targetCloseMs is max(1, T), T being
\* downloadEndMs - ttfbMs when downloadEndMs is recorded and otherwise the
\* whole milliseconds the body takes at mbps * 125 bytes per ms, mbps being
\* 1 when absent; for an empty body there are no chunks and targetCloseMs is 0.
C33_TargetCloseMs ==
    IsSome(chunk_out) =>
        LET n == Unwrap(chunk_in).total_size
            r == Unwrap(chunk_in).resource
            out == Unwrap(chunk_out)
            rate == IF IsSome(r.mbps) THEN Unwrap(r.mbps) ELSE MbpsScale
            T == IF IsSome(r.download_end_ms)
                 THEN Unwrap(r.download_end_ms) - r.ttfb_ms
                 ELSE (n * MbpsScale) \div (rate * 125)
        IN IF n = 0
           THEN out.chunks = << >> /\ out.target_close_time = 0
           ELSE out.target_close_time = Max(1, T)

\* C33 witness: a body of 64 KiB + 1 bytes with neither downloadEndMs nor
\* mbps recorded closes at 524 ms.
C33_Witness ==
    /\ IsSome(chunk_out)
    /\ Unwrap(chunk_in).total_size = CHUNK_SIZE + 1
    /\ Unwrap(chunk_in).resource.download_end_ms = None
    /\ Unwrap(chunk_in).resource.mbps = None
    /\ Unwrap(chunk_out).target_close_time = 524

\* C34: every chunk but the last is 64 KiB long, the last is not longer, the
\* first chunk's target time is 0, and the target time of a chunk is the sum
\* of (size / totalSize) * T over the chunks before it, to the millisecond:
\* less than 1 ms away from it.
C34_ProportionalTargetTimes ==
    IsSome(chunk_out) =>
        LET n == Unwrap(chunk_in).total_size
            chunks == Unwrap(chunk_out).chunks
            T == Unwrap(chunk_out).target_close_time
        IN /\ \A i \in 1..Len(chunks) :
                  LET size == chunks[i].chunk.to - chunks[i].chunk.from
                  IN IF i < Len(chunks) THEN size = 65536 ELSE size \in 1..65536
           /\ chunks /= << >> => chunks[1].target_time = 0
           /\ \A i \in 1..Len(chunks) :
                  /\ (chunks[i].target_time - 1) * n < chunks[i].chunk.from * T
                  /\ chunks[i].chunk.from * T < (chunks[i].target_time + 1) * n
----------------------------------------------------------------------------
(* Properties of the player.                                               *)

C11_ExactlyOneContentLength ==
    (IsSome(response) /\ Unwrap(response).body.kind = "stream") =>
        LET headers == Unwrap(response).headers
            lines == {i \in 1..Len(headers) : ToLower(headers[i][1]) = "content-length"}
        IN /\ Cardinality(lines) = 1
           /\ \A i \in lines :
                  headers[i][2] = ToDecimalString(Unwrap(play_resource).final_len)

\* The resource carries a charset to re-encode to, and the Content-Type the
\* origin sent, kept in the recorded headers, has no charset parameter.
DetectedFromContent(resource) ==
    /\ IsSome(resource.content_type_mime)
    /\ IsSome(resource.original_charset)
    /\ IsSome(resource.raw_headers)
    /\ "content-type" \in DOMAIN Unwrap(resource.raw_headers)
    /\ Unwrap(resource.raw_headers)["content-type"].values = <<"text/plain">>

\* C37: when the charset of a resource was detected from its content, the
\* Content-Type of the playback response is the MIME type alone, with no
\* charset parameter, and the body is in the detected charset.
C37_NoCharsetInContentType ==
    (/\ IsSome(response)
     /\ Unwrap(response).body.kind = "stream"
     /\ DetectedFromContent(Unwrap(play_resource))) =>
        LET resource == Unwrap(play_resource)
            headers == Unwrap(response).headers
        IN /\ \A i \in 1..Len(headers) :
                  headers[i][1] = "content-type" =>
                      headers[i][2] = Unwrap(resource.content_type_mime)
           /\ WireBodyCharset(resource) = Unwrap(resource.original_charset)

----------------------------------------------------------------------------
(* Properties of the player's body stream.                                 *)

\* C12: the chunks of the transaction are emitted in their list order, each
\* exactly once, and the stream ends only after the last one was emitted.
C12_ChunksInOrder ==
    IsSome(txn) =>
        LET chunks == Unwrap(txn).chunks IN
        /\ Len(emitted) <= Len(chunks)
        /\ \A k \in 1..Len(emitted) :
               emitted[k].g_idx = k /\ emitted[k].chunk = chunks[k].chunk
        /\ IsSome(stream_end) => Len(emitted) = Len(chunks)

\* The stream of a three-chunk transaction has ended.
C12_Witness ==
    /\ IsSome(stream_end)
    /\ Len(emitted) = 3
    /\ Len(Unwrap(txn).chunks) = 3

\* C13: no chunk is emitted before its target time has elapsed since the
\* TTFB-end instant; a chunk reached at or after its target time is emitted
\* at once, without a sleep.
C13_NotBeforeTarget ==
    \A k \in 1..Len(emitted) :
        LET e == emitted[k]
            target == Unwrap(txn).chunks[e.g_idx].target_time * TicksPerMs
            ttfb_end == Unwrap(srv).g_woke_at
        IN /\ e.g_at - ttfb_end >= target
           /\ e.g_reached_at - ttfb_end >= target =>
                  (~e.g_slept /\ e.g_at = e.g_reached_at)

\* One chunk was held back by a sleep and another, reached late, was not.
C13_Witness ==
    /\ \E k \in 1..Len(emitted) :
           emitted[k].g_slept /\ Unwrap(txn).chunks[k].target_time > 0
    /\ \E k \in 1..Len(emitted) :
           /\ ~emitted[k].g_slept
           /\ Unwrap(txn).chunks[k].target_time > 0
           /\ emitted[k].g_at - Unwrap(srv).g_woke_at >
                  Unwrap(txn).chunks[k].target_time * TicksPerMs

\* C14: with at least one chunk, the stream does not end before
\* targetCloseMs has elapsed since the TTFB-end instant.
C14_NotBeforeClose ==
    (IsSome(stream_end) /\ Unwrap(txn).chunks /= << >>) =>
        Unwrap(stream_end) - Unwrap(srv).g_woke_at >=
            Unwrap(txn).target_close_time * TicksPerMs

\* A stream ended exactly at its close time, its last chunk having been
\* emitted earlier.
C14_Witness ==
    /\ IsSome(stream_end)
    /\ emitted /= << >>
    /\ Unwrap(txn).target_close_time > 1
    /\ emitted[Len(emitted)].g_at < Unwrap(stream_end)
    /\ Unwrap(stream_end) - Unwrap(srv).g_woke_at =
           Unwrap(txn).target_close_time * TicksPerMs

\* C15: the status and headers are produced only after a sleep of ttfbMs from
\* the handling of the request, and the chunks' target times count from the
\* instant that sleep ended.
C15_HeadAfterTtfb ==
    /\ IsSome(response) =>
           /\ IsSome(srv)
           /\ Unwrap(srv).g_woke_at - Unwrap(srv).g_called_at >=
                  Unwrap(txn).ttfb * TicksPerMs
           /\ Unwrap(srv).ttfb_end_instant = Unwrap(srv).g_woke_at
    /\ emitted /= << >> => IsSome(response)
    /\ \A k \in 1..Len(emitted) :
           emitted[k].g_at - Unwrap(srv).g_woke_at >=
               Unwrap(txn).chunks[k].target_time * TicksPerMs

\* The head of a transaction with a TTFB was produced after the request had
\* waited, and a chunk with a target time followed.
C15_Witness ==
    /\ IsSome(response)
    /\ Unwrap(txn).ttfb > 0
    /\ Unwrap(srv).g_called_at > 0
    /\ \E k \in 1..Len(emitted) : Unwrap(txn).chunks[k].target_time > 0

----------------------------------------------------------------------------
(* Properties of the player's request matching.                            *)

\* The authority a request carries: that of its absolute URI, else its Host
\* header.
AuthorityOf(req) ==
    IF req.uri.authority /= "" THEN Some(req.uri.authority) ELSE req.host

\* A recorded (method, URL) answers a request: same method, same path and
\* query, and the same authority when both sides carry one.
Answers(x, req) ==
    /\ x.method = req.method
    /\ IsSome(ParseUri(x.url))
    /\ Unwrap(ParseUri(x.url)).path = req.uri.path
    /\ Unwrap(ParseUri(x.url)).query = req.uri.query
    /\ (IsSome(AuthorityOf(req)) /\ IsSome(Unwrap(ParseUri(x.url)).authority)) =>
           Unwrap(ParseUri(x.url)).authority = AuthorityOf(req)

AnsweringIn(list, req) == {i \in 1..Len(list) : Answers(list[i], req)}

First(S) == CHOOSE i \in S : \A j \in S : i <= j

\* C16: a request that matches no transaction is answered 404 with a
\* diagnostic body naming the request, and requests after it are still served.
C16_UnmatchedIs404 ==
    \A k \in 1..Len(answers) :
        AnsweringIn(transactions, answers[k].req) = {} =>
            /\ answers[k].response.status = 404
            /\ answers[k].response.body =
                   [kind |-> "full",
                    text |-> "Resource not found in playback data: "
                                 \o answers[k].req.method \o " "
                                 \o ReconstructUrl(answers[k].req)]

\* A 404 for a request no transaction of a non-empty list matches, and after
\* it a request served from a transaction.
C16_Witness ==
    /\ Len(answers) = 2
    /\ transactions /= << >>
    /\ AnsweringIn(transactions, answers[1].req) = {}
    /\ answers[1].response.status = 404
    /\ answers[2].g_txn_idx > 0
    /\ answers[2].response.body.kind = "stream"

\* C17: a request for a Resource recorded with an errorMessage, with or
\* without a captured body, is answered 500 with the errorMessage as body.
C17_ErrorResourceIs500 ==
    \A k \in 1..Len(answers) :
        LET hits == AnsweringIn(loaded, answers[k].req) IN
        (hits /= {} /\ IsSome(loaded[First(hits)].error_message)) =>
            /\ answers[k].response.status = 500
            /\ answers[k].response.body =
                   [kind |-> "full", text |-> Unwrap(loaded[First(hits)].error_message)]

----------------------------------------------------------------------------
(* Properties of the inventory on disk.                                    *)

\* index.json contents that are not an inventory.
MalformedIndexFiles ==
    { TextFile("{ invalid json"),
      TextFile(""),
      JsonFile(JObj([key \in {"entryUrl"} |-> JStr("https://example.com")])),
      JsonFile(JObj([key \in {"resources"} |-> JStr("none")])),
      JsonFile(JObj([key \in {"resources"} |->
                        JArr(<<JObj([key2 \in {"method"} |-> JStr("GET")])>>)])) }

----------------------------------------------------------------------------
(* Properties of the batch processor.                                      *)

\* C21: process_all never returns an error, and when it has returned every
\* resource whose own processing did not fail has been processed, whatever
\* happened to the resources before it.
C21_FailureIsolated ==
    /\ b_result \in {None, Some("Ok")}
    /\ b_result = Some("Ok") =>
           \A i \in 1..Len(b_inventory) :
               i \notin b_errors =>
                   /\ b_inventory[i].raw_body = None
                   /\ IsSome(b_inventory[i].g_body) =>
                          IsSome(b_inventory[i].content_file_path)

\* C21 witness: process_all returned Ok although a resource failed, and a
\* resource after the failed one has its content file.
C21_Witness ==
    /\ b_result = Some("Ok")
    /\ \E j \in b_errors : \E i \in (j + 1)..Len(b_inventory) :
           /\ i \notin b_errors
           /\ IsSome(b_inventory[i].content_file_path)

\* C28: a processed resource whose body was captured has exactly one of
\* content_file_path, content_utf8 and content_base64.
C28_ExactlyOneContent ==
    \A i \in 1..Len(b_inventory) :
        (i < b_idx /\ i \notin b_errors /\ IsSome(b_inventory[i].g_body)) =>
            Cardinality({f \in {"content_file_path", "content_utf8", "content_base64"} :
                            IsSome(b_inventory[i][f])}) = 1

\* C29: the content file of a processed resource that has a content_charset
\* holds the body's text in UTF-8.
C29_CharsetFileIsUtf8 ==
    \A i \in 1..Len(b_inventory) :
        (/\ i < b_idx
         /\ i \notin b_errors
         /\ IsSome(b_inventory[i].content_charset)
         /\ IsSome(b_inventory[i].content_file_path)) =>
            LET file == b_files[Unwrap(b_inventory[i].content_file_path)]
            IN /\ file.charset = "utf-8"
               /\ file.text = Unwrap(b_inventory[i].g_body).text

\* The resources process_all has dealt with that reference a content file.
Filed == {i \in 1..Len(b_inventory) : i < b_idx /\ IsSome(b_inventory[i].content_file_path)}

\* C36: two resources reference the same content file only if they have the
\* same method and URL-derived path, and the file then holds the body of the
\* one that was processed last.
C36_ContentFileOwned ==
    \A i \in Filed :
        LET sharing == {j \in Filed :
                           b_inventory[j].content_file_path = b_inventory[i].content_file_path}
            last == CHOOSE j \in sharing : \A k \in sharing : k <= j
        IN /\ \A j \in sharing :
                  /\ b_inventory[i].method = b_inventory[j].method
                  /\ GenerateFilePathFromUrl(b_inventory[i].url, b_inventory[i].method)
                         = GenerateFilePathFromUrl(b_inventory[j].url, b_inventory[j].method)
           /\ b_files[Unwrap(b_inventory[i].content_file_path)].text
                  = Unwrap(b_inventory[last].g_body).text

\* C36 witness: two recordings of one URL with different bodies have both
\* been processed; they reference one file, which holds the second body.
C36_Witness ==
    /\ Filed = {1, 2}
    /\ b_inventory[1].content_file_path = b_inventory[2].content_file_path
    /\ Unwrap(b_inventory[1].g_body).text = "PNG"
    /\ Unwrap(b_inventory[2].g_body).text = "GIF"
    /\ b_files[Unwrap(b_inventory[2].content_file_path)].text = "GIF"

----------------------------------------------------------------------------
(* Properties of the recorder's shutdown.                                  *)

\* Position of a step in the shutdown log, 0 when it has not happened.
StepAt(step) ==
    IF \E i \in 1..Len(shutdown_log) : shutdown_log[i] = step
    THEN CHOOSE i \in 1..Len(shutdown_log) :
             /\ shutdown_log[i] = step
             /\ \A j \in 1..(i - 1) : shutdown_log[j] /= step
    ELSE 0

\* C19: every shutdown trigger starts the same shutdown path, and the process
\* exits only after accepting has stopped and the inventory has been saved.
C19_EveryTriggerShutsDown ==
    /\ delivered /= << >> => (proc /= "killed" /\ sh_pc /= "select")
    /\ proc /= "running" =>
           /\ StepAt("stop_accepting") > 0
           /\ StepAt("save_inventory") > 0

\* C20: on shutdown the broadcast comes first, then the quiescence wait, then
\* the processing of every resource's content, then index.json, then the
\* verification of the content files; index.json is not written before every
\* resource has been processed.
C20_ShutdownOrder ==
    /\ StepAt("quiescence") > 0 => StepAt("broadcast") \in 1..(StepAt("quiescence") - 1)
    /\ \A i \in 1..Len(shutdown_log) :
           shutdown_log[i] = "content_processed" =>
               /\ StepAt("quiescence") \in 1..(i - 1)
               /\ StepAt("index_json") > 0 => i < StepAt("index_json")
    /\ StepAt("index_json") > 0 => StepAt("quiescence") \in 1..(StepAt("index_json") - 1)
    /\ StepAt("verified") > 0 => StepAt("save_inventory") \in 1..(StepAt("verified") - 1)

\* The content files of the inventory's resources that are not on disk.
MissingFiles ==
    { path \in ContentPaths :
          /\ \E i \in 1..Len(inventory) : inventory[i].content_file_path = Some(path)
          /\ path \notin visible }

C23_OnlyPostShutdown ==
    [][(control_log' /= control_log) =>
          LET answer == Unwrap(control_log')
          IN IF answer.req = [method |-> "POST", path |-> "/_shutdown"]
             THEN /\ answer.status = 200
                  /\ sh_pc' /= "select"
                  /\ proxy_pc' /= "serving"
             ELSE /\ answer.status = 404
                  /\ UNCHANGED <<sh_pc, proxy_pc, proc, delivered, shutdown_log>>]_vars

\* C23 witness: GET /_shutdown was answered 404 and nothing has been notified.
C23_Witness ==
    /\ IsSome(control_log)
    /\ Unwrap(control_log).req = [method |-> "GET", path |-> "/_shutdown"]
    /\ Unwrap(control_log).status = 404
    /\ proc = "running"
    /\ sh_pc = "select"
    /\ proxy_pc = "serving"

\* C26: a run in which save_inventory failed does not end in the success
\* outcome.
C26_SaveFailureFatal ==
    (StepAt("save_inventory") > 0 /\ StepAt("index_json") = 0) => proc /= "exited"

\* C27: the recorder does not run, and does not end in the success outcome,
\* with a requested management listener that failed to bind.
C27_ControlBindFailureFatal ==
    (IsSome(control_port) /\ mgmt = "failed") => proc \notin {"running", "exited"}

\* The locks held by a task that is suspended, as <<task, lock>>.
LocksHeld ==
    { <<holder, "shared_inventory">> :
          holder \in IF IsSome(InventoryGuard) THEN {Unwrap(InventoryGuard)} ELSE {} }
        \cup UNION { HandlerGuards(t) : t \in tasks }

\* C31: no task is suspended (on network I/O, file I/O or a sleep) while it
\* holds the inventory lock, the request-info lock or the counter lock.
C31_NoLockAcrossSuspension == LocksHeld = {}

\* History: the number of resources pushed before the shutdown handler took
\* the inventory lock.
PushedBeforeSave ==
    Cardinality({i \in 1..Len(shutdown_log) :
                    /\ shutdown_log[i] = "content_processed"
                    /\ StepAt("save_inventory") > 0 => i < StepAt("save_inventory")})

\* C38: the index.json that is written holds every resource that was pushed
\* to the shared inventory before the shutdown handler locked it, the ones
\* pushed during the quiescence wait included.
C38_SavedHoldsEarlierPushes ==
    IsSome(index_json) =>
        /\ Len(Unwrap(index_json)) >= PushedBeforeSave
        /\ \A i \in 1..PushedBeforeSave : Unwrap(index_json)[i] = inventory[i]

\* C38 witness: index.json was written and holds a resource that was pushed
\* between the broadcast and the end of the quiescence wait.
C38_Witness ==
    /\ IsSome(index_json)
    /\ \E i \in 1..Len(shutdown_log) :
           /\ shutdown_log[i] = "content_processed"
           /\ StepAt("broadcast") \in 1..(i - 1)
           /\ i < StepAt("quiescence")
    /\ Unwrap(index_json) /= << >>
    /\ Unwrap(index_json)[Len(Unwrap(index_json))] = inventory[PushedBeforeSave]

----------------------------------------------------------------------------
(* Properties of concurrent playback.                                      *)

\* C32: whatever the other connections are doing, a connection's head goes
\* out at its own TTFB deadline, counted from its own request, each of its
\* chunks at its target time counted from its own TTFB end, and its stream
\* ends at its own close time; no request waits for another one's sleep.
C32_IndependentTiming ==
    \A c \in DOMAIN c_conns :
        LET k == c_conns[c]
        IN /\ k.pc \in {"lookup", "ttfb_sleep"} => c_clock <= k.g_accepted_at + k.txn.ttfb
           /\ IsSome(k.g_head_at) =>
                  /\ Unwrap(k.g_head_at) = k.g_accepted_at + k.txn.ttfb
                  /\ k.ttfb_end_instant = Unwrap(k.g_head_at)
           /\ \A i \in DOMAIN k.g_sent :
                  k.g_sent[i] = k.ttfb_end_instant + k.txn.chunks[i].target_time
           /\ IsSome(k.g_end) =>
                  Unwrap(k.g_end) = k.ttfb_end_instant + k.txn.target_close_time

\* C32 witness: a request that arrived during another request's TTFB sleep
\* got its head and its whole body while the other one was still sleeping,
\* and both ended on their own schedules.
C32_Witness ==
    /\ Len(c_conns) = 2
    /\ c_conns[1].txn.ttfb = 2 /\ c_conns[2].txn.ttfb = 0
    /\ c_conns[2].g_accepted_at = c_conns[1].g_accepted_at + 1
    /\ c_conns[1].pc = "done" /\ c_conns[2].pc = "done"
    /\ Unwrap(c_conns[2].g_head_at) < Unwrap(c_conns[1].g_head_at)
    /\ Unwrap(c_conns[2].g_end) = Unwrap(c_conns[1].g_head_at)

----------------------------------------------------------------------------
(* Properties of the content path.                                         *)

\* The file name the path ends in: the last segment, or index.html for an
\* empty path and for a path that ends in '/'.
FileNameOf(path) ==
    IF path.segments = << >> \/ path.ends_with_slash THEN <<"index", "html">>
    ELSE path.segments[Len(path.segments)]

\* C35: for a URL with a query that is not empty, whatever its path, the file
\* name carries the query (percent-encoded after a ~, cut at 32 characters
\* with the SHA-1 of the rest for a longer one) before the extension, and no
\* URL that differs from it in the query only has the same content path.
C35_QueryInFileName ==
    (IsSome(p_path) /\ IsSome(Unwrap(p_url).query) /\ Unwrap(Unwrap(p_url).query) /= << >>) =>
        LET u == Unwrap(p_url)
            query == Unwrap(u.query)
            file == FileNameOf(u.path)
            name == IF Len(file) > 1 THEN Join(SubSeq(file, 1, Len(file) - 1), ".")
                    ELSE file[1]
            ext == IF Len(file) > 1 THEN "." \o file[Len(file)] ELSE ""
            tag == IF Len(query) <= 32
                   THEN "~" \o UrlEncode(query)
                   ELSE "~" \o UrlEncode(SubSeq(query, 1, 32)) \o ".~"
                            \o Sha1Hex(SubSeq(query, 33, Len(query)))
            without == GenerateFilePath([u EXCEPT !.query = None], u.method)
            plain == Join(file, ".")
        IN /\ \E dir \in {"get/https/example.com/", "post/https/example.com/",
                           "get/https/example.com/path/", "post/https/example.com/path/",
                           "get/https/example.com/dir/", "post/https/example.com/dir/"} :
                  /\ without = dir \o plain
                  /\ Unwrap(p_path) = dir \o name \o tag \o ext
           /\ \A other \in UrlQueries \ {u.query} :
                  GenerateFilePath([u EXCEPT !.query = other], u.method) /= Unwrap(p_path)

----------------------------------------------------------------------------
(* Properties of the player's shutdown.                                    *)

\* C30: once the player has stopped accepting, no connection is accepted any
\* more, and when the process has exited every response that was in flight
\* has been sent to its end.
C30_InFlightDrained ==
    d_proc = "exited" => \A c \in DOMAIN d_conns : d_conns[c] = "complete"
====
